---- MODULE Spec2Model ----
(***************************************************************************)
(* A model of the GitHub request paths of the repository:                  *)
(*   - github_api.py: the GitHubAPI client (construction from the          *)
(*     environment, make_request and the helpers built on it);             *)
(*   - agent.py: UnifiedGitHubAgent, its github_api tool and the tools     *)
(*     that create issues and comment on issues and pull requests;         *)
(*   - setup.py: the installation script.                                  *)
(*                                                                         *)
(* Spec     follows single invocations of make_request / github_api, one   *)
(*          step per blocking point (built, sent, returned).               *)
(* SpecRuns follows whole runs of the agent's tools against the remote     *)
(*          repository (its open issues and pull requests).                *)
(* SpecMeta follows concurrent callers of the meta-tooling github_api.     *)
(* SpecTools follows single calls of the agent's tools.                    *)
(* SpecMain follows agent.py main and process_message.                     *)
(* SpecSetup follows setup.py main, one step per stage of the setup.       *)
(***************************************************************************)
EXTENDS Integers, Sequences, FiniteSets, TLC

VARIABLES
    env,      \* the process environment: GITHUB_TOKEN, GITHUB_REPOSITORY
    httpLib,  \* github_api.HTTP_LIB_AVAILABLE
    api,      \* the GitHubAPI instance (github_api.py)
    agent,    \* the UnifiedGitHubAgent instance (agent.py)
    pc,       \* where the invocation in progress stands
    cur,      \* the invocation in progress
    sent,     \* the HTTP requests the invocation in progress has issued
    result,   \* what the invocation returned
    prev,     \* the previous invocation: how it ended and what it returned
    remote,   \* the repository on GitHub: its open issues and pull requests
    runs,     \* the tool runs completed so far (SpecRuns)
    metrics,  \* meta_engine.tool_performance_metrics (meta_tooling_agent.py)
    callers,  \* the concurrent callers of the meta-tooling github_api (SpecMeta)
    chat,     \* agent.py main: the agents, the line read, the message processed
    setup     \* setup.py main: arguments, prerequisites, files, position

vars == <<env, httpLib, api, agent, pc, cur, sent, result, prev, remote, runs,
          metrics, callers, chat, setup>>

(***************************************************************************)
(* Python values.                                                          *)
(***************************************************************************)

\* os.getenv of a variable that is not set (None).
Unset == "<unset>"

\* An empty dict.
EmptyDict == [k \in {} |-> ""]

\* Optional[Dict]: None, or a dict (a function from its keys).
PyNone == [some |-> FALSE, val |-> EmptyDict]

Dict(d) == [some |-> TRUE, val |-> d]

\* Python truth of an Optional[Dict]: None and {} are false.
Truthy(x) == x.some /\ DOMAIN x.val # {}

\* Python truth of an Optional[str]: None and "" are false.
TruthyStr(s) == s # Unset /\ s # ""

\* str.upper on the method strings the model draws.
Upper(m) ==
    CASE m = "get" -> "GET"
      [] m = "post" -> "POST"
      [] m = "patch" -> "PATCH"
      [] m = "put" -> "PUT"
      [] m = "delete" -> "DELETE"
      [] m = "head" -> "HEAD"
      [] OTHER -> m

\* An endpoint string: `lead` leading slashes, then `path`.
Slashes(n) == IF n = 0 THEN "" ELSE IF n = 1 THEN "/" ELSE "//"

EndpointStr(e) == Slashes(e.lead) \o e.path

\* str.lstrip('/')
Lstrip(e) == [lead |-> 0, path |-> e.path]

(***************************************************************************)
(* The values the model draws.                                             *)
(***************************************************************************)

TokenValues == {Unset, "", "tok"}

RepoValues == {Unset, "", "o/r"}

Methods == {"GET", "post", "PATCH", "PUT", "DELETE", "HEAD"}

Endpoints == {[lead |-> 1, path |-> "repos/o/r"], [lead |-> 0, path |-> "user"]}

Datas == {PyNone, Dict(EmptyDict), Dict([body |-> "x"])}

Bodies == {"", "x"}

IssueNumbers == {7}

\* What the network does with one HTTP request: a response, a connection
\* error, or silence (no answer ever arrives).
Statuses == {200, 201, 202, 204, 403, 404}

\* A JSON value: an object (a function from its keys) or a list (a sequence).
JObject(d) == [kind |-> "dict", val |-> d]

JList(items) == [kind |-> "list", val |-> [items |-> items]]

\* The body GitHub sends with a status, decoded: an error object for a
\* rejection, else the object asked for.
ServerBody(status) ==
    IF status >= 400 THEN JObject([message |-> "rejected"])
    ELSE JObject([id |-> 1, number |-> 1])

\* `reset` is the X-RateLimit-Reset header of the response (0: no such header).
Response(status, decodable, body) ==
    [type |-> "response", status |-> status, decodable |-> decodable, body |-> body,
     reset |-> 0]

\* The time a rate-limited 403 names in its X-RateLimit-Reset header.
ResetAt == 1700000000

\* A 403 of the rate limiter: the response with the reset header.
RateLimited(resp) == [resp EXCEPT !.reset = ResetAt]

ConnectionError ==
    [type |-> "ConnectionError", status |-> 0, decodable |-> FALSE,
     body |-> JObject(EmptyDict), reset |-> 0]

Silent ==
    [type |-> "silent", status |-> 0, decodable |-> FALSE,
     body |-> JObject(EmptyDict), reset |-> 0]

Outcomes ==
    {Response(s, d, ServerBody(s)) : s \in Statuses, d \in BOOLEAN}
        \cup {RateLimited(Response(403, d, ServerBody(403))) : d \in BOOLEAN}
        \cup {ConnectionError, Silent}

(***************************************************************************)
(* github_api.py: credentials and construction.                            *)
(***************************************************************************)

\* os.getenv(name, default)
getenv(name, default) == IF env[name] = Unset THEN default ELSE env[name]

Raise(exc) == [raised |-> TRUE, exc |-> exc, value |-> ""]

Value(v) == [raised |-> FALSE, exc |-> "", value |-> v]

get_github_token ==
    LET token == getenv("GITHUB_TOKEN", "")
    IN IF ~TruthyStr(token) THEN Raise("ValueError") ELSE Value(token)

\* Headers with the "token" scheme in place of "Bearer".
get_github_headers_token_scheme ==
    LET token == get_github_token
    IN IF token.raised THEN token
       ELSE Value([Authorization |-> "token " \o token.value,
                   Accept |-> "application/vnd.github.v3+json",
                   ContentType |-> "application/json",
                   UserAgent |-> "GitHub-Agent/1.0"])

get_github_headers ==
    LET token == get_github_token
    IN IF token.raised THEN token
       ELSE Value([Authorization |-> "Bearer " \o token.value,
                   Accept |-> "application/vnd.github.v3+json",
                   ContentType |-> "application/json",
                   UserAgent |-> "GitHub-Agent/1.0"])

get_repository_info ==
    LET repo == getenv("GITHUB_REPOSITORY", "")
    IN IF ~TruthyStr(repo) THEN Raise("ValueError") ELSE Value(repo)

NoApi == [state |-> "unbuilt", base_url |-> "", repo |-> "", headers |-> EmptyDict]

\* GitHubAPI(): the constructor raises when the repository or the token is
\* missing, and then no instance exists.
GitHubAPI_new ==
    IF get_repository_info.raised \/ get_github_headers.raised
    THEN [NoApi EXCEPT !.state = "ConfigurationError"]
    ELSE [state |-> "ready",
          base_url |-> "https://api.github.com",
          repo |-> get_repository_info.value,
          headers |-> get_github_headers.value]

(***************************************************************************)
(* agent.py: UnifiedGitHubAgent.__init__                                   *)
(***************************************************************************)

UnifiedGitHubAgent_new ==
    [state |-> "ready",
     repo |-> getenv("GITHUB_REPOSITORY", "unknown/repo"),
     token |-> getenv("GITHUB_TOKEN", Unset)]

(***************************************************************************)
(* Return values.                                                          *)
(***************************************************************************)

\* return None
RNone == [kind |-> "None"]

\* the decoded JSON body of a response
RJson(resp) == resp.body

\* {"success": True, "status_code": response.status_code}
RSuccess(code) == JObject([success |-> TRUE, status_code |-> code])

\* {"error": message}
RError(message) == JObject([error |-> message])

\* `key in value` for a returned dict or list (a list of objects holds no key).
Has(value, key) == value.kind = "dict" /\ key \in DOMAIN value.val

NoResult == [kind |-> "none yet"]

(***************************************************************************)
(* github_api.py: GitHubAPI.make_request and the helpers built on it.      *)
(***************************************************************************)

BodyMethods == {"POST", "PATCH", "PUT"}

SupportedMethods == {"GET", "POST", "PATCH", "PUT", "DELETE"}

Timeout == 30

SuccessCodes == {200, 201, 202}

NoRequest ==
    [via |-> "", verb |-> "", url |-> "", headers |-> EmptyDict,
     hasTimeout |-> FALSE, timeout |-> 0, hasJson |-> FALSE, json |-> EmptyDict]

\* kwargs that attach json whenever data is given, whatever the method.
make_request_kwargs_any_method(method, endpoint, data) ==
    [via |-> "requests",
     verb |-> Upper(method),
     url |-> api.base_url \o "/" \o EndpointStr(Lstrip(endpoint)),
     headers |-> api.headers,
     hasTimeout |-> TRUE,
     timeout |-> Timeout,
     hasJson |-> Truthy(data),
     json |-> IF Truthy(data) THEN data.val ELSE EmptyDict]

\* kwargs whose headers are put together at the call, not taken from the
\* instance.
make_request_kwargs_rebuilt_headers(method, endpoint, data) ==
    LET carries == Truthy(data) /\ Upper(method) \in BodyMethods
    IN [via |-> "requests",
        verb |-> Upper(method),
        url |-> api.base_url \o "/" \o EndpointStr(Lstrip(endpoint)),
        headers |-> [Authorization |-> "token " \o getenv("GITHUB_TOKEN", ""),
                     Accept |-> "application/json"],
        hasTimeout |-> TRUE,
        timeout |-> Timeout,
        hasJson |-> carries,
        json |-> IF carries THEN data.val ELSE EmptyDict]

\* kwargs of the requests call: headers, timeout, and json when
\* `data and method.upper() in ['POST', 'PATCH', 'PUT']`.
make_request_kwargs(method, endpoint, data) ==
    LET carries == Truthy(data) /\ Upper(method) \in BodyMethods
    IN [via |-> "requests",
        verb |-> Upper(method),
        url |-> api.base_url \o "/" \o EndpointStr(Lstrip(endpoint)),
        headers |-> api.headers,
        hasTimeout |-> TRUE,
        timeout |-> Timeout,
        hasJson |-> carries,
        json |-> IF carries THEN data.val ELSE EmptyDict]

\* The method dispatch: one of requests.get/post/patch/put/delete, or
\* raise ValueError("Unsupported HTTP method").
make_request_dispatch(method) ==
    IF Upper(method) \in SupportedMethods THEN Value(Upper(method))
    ELSE Raise("ValueError")

\* What the requests call does with the network's outcome: a response, or
\* an exception (with timeout=30 silence ends in requests.Timeout).
requests_call(outcome) ==
    CASE outcome.type = "response" -> Value(outcome)
      [] outcome.type = "ConnectionError" -> Raise("ConnectionError")
      [] outcome.type = "silent" -> Raise("Timeout")

\* response.json(): the decoded body, or ValueError.
response_json(resp) ==
    IF resp.decodable THEN Value(RJson(resp)) ELSE Raise("ValueError")

\* A response handling that takes 200 alone for a success.
make_request_response_ok_only(resp) ==
    IF resp.status = 200
    THEN IF response_json(resp).raised
         THEN RSuccess(resp.status)
         ELSE response_json(resp).value
    ELSE RNone

\* The code after the call: 200, 201 and 202 are successes (the decoded body,
\* or a stub when the body does not decode); everything else returns None.
make_request_response(resp) ==
    IF resp.status \in SuccessCodes
    THEN IF response_json(resp).raised
         THEN RSuccess(resp.status)
         ELSE response_json(resp).value
    ELSE RNone

\* A handler that catches the exceptions of requests only.
make_request_except_requests_only(exc) ==
    IF exc \in {"ConnectionError", "Timeout"}
    THEN [caught |-> TRUE, value |-> RNone]
    ELSE [caught |-> FALSE, value |-> NoResult]

\* `except Exception as e: ... return None`: every exception raised in the
\* try block is caught.
make_request_except(exc) == [caught |-> TRUE, value |-> RNone]

\* GitHubAPI.create_comment(issue_number, body)
create_comment(issue_number, body) ==
    [op |-> "create_comment",
     method |-> "POST",
     endpoint |-> [lead |-> 0,
                   path |-> "repos/" \o api.repo \o "/issues/"
                            \o ToString(issue_number) \o "/comments"],
     data |-> Dict([body |-> body]),
     body |-> body]

\* GitHubAPI.update_issue(issue_number, title, state): a field enters
\* update_data when it is truthy.
update_issue(issue_number, title, state) ==
    [op |-> "update_issue",
     method |-> "PATCH",
     endpoint |-> [lead |-> 0,
                   path |-> "repos/" \o api.repo \o "/issues/"
                            \o ToString(issue_number)],
     data |-> Dict([k \in {f \in {"title", "state"} :
                              TruthyStr(IF f = "title" THEN title ELSE state)}
                    |-> IF k = "title" THEN title ELSE state]),
     body |-> Unset]

\* GitHubAPI.create_issue(title, body, labels): labels enters issue_data when
\* it is truthy (as assignees and milestone do).
create_issue(title, body, labels) ==
    [op |-> "create_issue",
     method |-> "POST",
     endpoint |-> [lead |-> 0, path |-> "repos/" \o api.repo \o "/issues"],
     data |-> Dict(IF labels # <<>>
                   THEN [title |-> title, body |-> body, labels |-> labels]
                   ELSE [title |-> title, body |-> body]),
     body |-> body]

\* GitHubAPI.get_issues(state) and GitHubAPI.get_pull_requests(state)
get_issues(state) ==
    [op |-> "get_issues",
     method |-> "GET",
     endpoint |-> [lead |-> 0,
                   path |-> "repos/" \o api.repo \o "/issues?state=" \o state],
     data |-> PyNone,
     body |-> Unset]

get_pull_requests(state) ==
    [op |-> "get_pull_requests",
     method |-> "GET",
     endpoint |-> [lead |-> 0,
                   path |-> "repos/" \o api.repo \o "/pulls?state=" \o state],
     data |-> PyNone,
     body |-> Unset]

\* A direct call of make_request(method, endpoint, data).
make_request(method, endpoint, data) ==
    [op |-> "make_request", method |-> method, endpoint |-> endpoint,
     data |-> data, body |-> Unset]

(***************************************************************************)
(* agent.py: the github_api tool of UnifiedGitHubAgent.                    *)
(***************************************************************************)

\* `if not self.token: return {"error": "GitHub token not available"}`
github_api_guard ==
    IF ~TruthyStr(agent.token) THEN Raise("no token") ELSE Value(agent.token)

\* The http_request call of the tool: method, url and headers, json when
\* `method.upper() in ['POST', 'PUT', 'PATCH'] and data`; no timeout is passed.
github_api_kwargs(method, endpoint, data) ==
    LET carries == Upper(method) \in BodyMethods /\ Truthy(data)
    IN [via |-> "http_request",
        verb |-> method,
        url |-> "https://api.github.com" \o EndpointStr(endpoint),
        headers |-> [Authorization |-> "Bearer " \o agent.token,
                     Accept |-> "application/vnd.github.v3+json",
                     ContentType |-> "application/json"],
        hasTimeout |-> FALSE,
        timeout |-> 0,
        hasJson |-> carries,
        json |-> IF carries THEN data.val ELSE EmptyDict]

\* http_request (strands_tools), as the tools of agent.py use it: it returns
\* the decoded response whatever its status and raises on a transport error.
\* No timeout was passed: when no answer arrives the call does not return.
http_request_call(outcome) ==
    CASE outcome.type = "response" /\ outcome.decodable -> Value(RJson(outcome))
      [] outcome.type = "response" /\ ~outcome.decodable -> Raise("ValueError")
      [] outcome.type = "ConnectionError" -> Raise("ConnectionError")
      [] outcome.type = "silent" -> [raised |-> FALSE, exc |-> "hang", value |-> NoResult]

\* `except Exception as e: return {"error": f"GitHub API request failed: ..."}`
github_api_except(exc) ==
    [caught |-> TRUE, value |-> RError("GitHub API request failed: " \o exc)]

\* A call of the tool github_api(endpoint, method, data).
github_api(endpoint, method, data) ==
    [op |-> "github_api", method |-> method, endpoint |-> endpoint,
     data |-> data, body |-> Unset]

(***************************************************************************)
(* One invocation, step by step.                                           *)
(***************************************************************************)

NoOutcome ==
    [type |-> "none", status |-> 0, decodable |-> FALSE, body |-> JObject(EmptyDict),
     reset |-> 0]

NoCall ==
    [via |-> "", op |-> "", method |-> "", endpoint |-> [lead |-> 0, path |-> ""],
     data |-> PyNone, body |-> Unset, request |-> NoRequest,
     outcome |-> NoOutcome, local |-> ""]

NoPrev == [valid |-> FALSE, via |-> "", local |-> "", outcome |-> NoOutcome,
           result |-> NoResult]

Call(via, c, request) ==
    [via |-> via, op |-> c.op, method |-> c.method, endpoint |-> c.endpoint,
     data |-> c.data, body |-> c.body, request |-> request,
     outcome |-> NoOutcome, local |-> ""]

\* The calls of the GitHubAPI client the model draws.
APICalls ==
    {make_request(m, e, d) : m \in Methods, e \in Endpoints, d \in Datas}
        \cup {create_comment(n, b) : n \in IssueNumbers, b \in Bodies}
        \cup {update_issue(n, t, s) : n \in IssueNumbers, t \in {Unset, "t"},
                                      s \in {Unset, "", "closed"}}
        \cup {create_issue(t, "b", l) : t \in {"", "t"}, l \in {<<>>, <<"bug">>}}
        \cup {get_issues("open"), get_pull_requests("open")}

\* The calls of the github_api tool the model draws.
ToolCalls ==
    {github_api(e, m, d) : e \in Endpoints, m \in Methods, d \in Datas}

\* A return that goes back to the built request when the call failed.
ReturnOrRetry(value) ==
    IF value = RNone \/ Has(value, "error")
    THEN [pc |-> "Built", result |-> NoResult]
    ELSE [pc |-> "Returned", result |-> value]

\* A `return value` of make_request / github_api: the invocation is over.
Return(value) == [pc |-> "Returned", result |-> value]

\* An exception met inside the try block of make_request / github_api.
Handle(handler) ==
    IF handler.caught THEN Return(handler.value)
    ELSE [pc |-> "Raised", result |-> NoResult]

\* make_request up to the dispatch: the early return when requests is not
\* importable, else the kwargs are prepared.
MakeRequestBuild ==
    /\ pc = "Idle"
    /\ api.state = "ready"
    /\ \E c \in APICalls :
         IF ~httpLib
         THEN /\ cur' = [Call("make_request", c, NoRequest) EXCEPT !.local = "no requests"]
              /\ pc' = Return(RNone).pc
              /\ result' = Return(RNone).result
         ELSE /\ cur' = Call("make_request", c,
                             make_request_kwargs(c.method, c.endpoint, c.data))
              /\ pc' = "Built"
              /\ result' = NoResult
    /\ sent' = <<>>
    /\ UNCHANGED <<env, httpLib, api, agent, prev, remote, runs, metrics, callers, chat, setup>>

\* github_api up to the http_request call: the early return without a token.
GithubApiBuild ==
    /\ pc = "Idle"
    /\ agent.state = "ready"
    /\ \E c \in ToolCalls :
         IF github_api_guard.raised
         THEN /\ cur' = [Call("github_api", c, NoRequest) EXCEPT !.local = "no token"]
              /\ pc' = Return(RError("GitHub token not available")).pc
              /\ result' = Return(RError("GitHub token not available")).result
         ELSE /\ cur' = Call("github_api", c,
                             github_api_kwargs(c.method, c.endpoint, c.data))
              /\ pc' = "Built"
              /\ result' = NoResult
    /\ sent' = <<>>
    /\ UNCHANGED <<env, httpLib, api, agent, prev, remote, runs, metrics, callers, chat, setup>>

\* The HTTP call is issued, or (make_request) the method is not supported
\* and the ValueError goes to the except clause.
Send ==
    /\ pc = "Built"
    /\ LET d == IF cur.via = "make_request" THEN make_request_dispatch(cur.method)
                ELSE Value(cur.method)
           h == Handle(make_request_except(d.exc))
       IN IF d.raised
          THEN /\ pc' = h.pc
               /\ result' = h.result
               /\ cur' = [cur EXCEPT !.local = "unsupported method"]
               /\ sent' = sent
          ELSE /\ pc' = "Sent"
               /\ sent' = Append(sent, cur.request)
               /\ UNCHANGED <<result, cur>>
    /\ UNCHANGED <<env, httpLib, api, agent, prev, remote, runs, metrics, callers, chat, setup>>

\* The network's outcome reaches make_request.
MakeRequestRespond ==
    /\ pc = "Sent"
    /\ cur.via = "make_request"
    /\ \E o \in Outcomes :
         LET r == requests_call(o)
             n == IF r.raised THEN Handle(make_request_except(r.exc))
                  ELSE Return(make_request_response(r.value))
         IN /\ pc' = n.pc
            /\ result' = n.result
            /\ cur' = [cur EXCEPT !.outcome = o]
    /\ UNCHANGED <<env, httpLib, api, agent, sent, prev, remote, runs,
                   metrics, callers, chat, setup>>

\* The network's outcome reaches github_api; with no answer the call hangs.
GithubApiRespond ==
    /\ pc = "Sent"
    /\ cur.via = "github_api"
    /\ \E o \in Outcomes :
         LET r == http_request_call(o)
             n == IF r.exc = "hang" THEN [pc |-> "Hung", result |-> NoResult]
                  ELSE IF r.raised THEN Handle(github_api_except(r.exc))
                  ELSE Return(r.value)
         IN /\ pc' = n.pc
            /\ result' = n.result
            /\ cur' = [cur EXCEPT !.outcome = o]
    /\ UNCHANGED <<env, httpLib, api, agent, sent, prev, remote, runs,
                   metrics, callers, chat, setup>>

\* The caller has the result (or the exception); the next invocation may start.
Finish ==
    /\ pc \in {"Returned", "Raised"}
    /\ prev' = [valid |-> TRUE, via |-> cur.via, local |-> cur.local,
                outcome |-> cur.outcome, result |-> result]
    /\ pc' = "Idle"
    /\ cur' = NoCall
    /\ result' = NoResult
    /\ sent' = <<>>
    /\ UNCHANGED <<env, httpLib, api, agent, remote, runs, metrics, callers, chat, setup>>

NoRemote == [files |-> EmptyDict, issues |-> <<>>]

\* The callers (threads) that use the meta-tooling github_api concurrently.
Callers == {1, 2}

\* A fresh entry of tool_performance_metrics (the counters of it the model
\* keeps; the execution times and the rates derived from the counters are
\* left out).
ZeroEntry == [total_calls |-> 0, successful_calls |-> 0]

\* tool_performance_metrics = {}: no entry for 'github_api' (current = 0).
\* objects[t] is the entry dict caller t created, current the one the table
\* holds.
NoMetrics == [current |-> 0, objects |-> [t \in Callers |-> ZeroEntry]]

IdleCaller ==
    [pc |-> "idle", success |-> FALSE, ref |-> 0, tmp |-> 0, calls |-> 0,
     successes |-> 0]

\* agent.py main not started; setup.py main not started.
NoChat == [pc |-> "none"]

NoSetup == [pc |-> "none"]

Init ==
    /\ env \in [GITHUB_TOKEN : TokenValues, GITHUB_REPOSITORY : RepoValues]
    /\ httpLib \in BOOLEAN
    /\ api = GitHubAPI_new
    /\ agent = UnifiedGitHubAgent_new
    /\ pc = "Idle"
    /\ cur = NoCall
    /\ sent = <<>>
    /\ result = NoResult
    /\ prev = NoPrev
    /\ remote = NoRemote
    /\ runs = 0
    /\ metrics = NoMetrics
    /\ callers = [t \in Callers |-> IdleCaller]
    /\ chat = NoChat
    /\ setup = NoSetup

Next ==
    \/ MakeRequestBuild
    \/ GithubApiBuild
    \/ Send
    \/ MakeRequestRespond
    \/ GithubApiRespond
    \/ Finish

Spec == Init /\ [][Next]_vars

(***************************************************************************)
(* The repository: the checked-out files the tools read with file_read,    *)
(* and the open issues and pull requests GitHub holds.                     *)
(***************************************************************************)

\* The repository the server knows.
RemoteRepo == "o/r"

\* What file_read gives for a path: an exception, or a content, of which
\* the model keeps the substrings the tools look for.
Unreadable == [raised |-> TRUE, has |-> {}]

Content(substrings) == [raised |-> FALSE, has |-> substrings]

\* Every tool the analysis looks for is listed, every document is there.
FilesClean ==
    [requirements |-> Content({"requirements.txt", "safety", "bandit", "black",
                               "pylint", "pytest", "psutil", "memory-profiler"}),
     contributing |-> Content({}),
     changelog |-> Content({}),
     workflow |-> Content({"test", "security"}),
     agent_py |-> Content({"agent.py"})]

\* As FilesClean, but CONTRIBUTING.md is missing.
FilesNoContributing ==
    [FilesClean EXCEPT !.contributing = Content({"not found"})]

\* A bare repository: an empty requirements.txt, no documents, a workflow
\* without tests, an agent.py that sleeps.
FilesBare ==
    [requirements |-> Content({"requirements.txt"}),
     contributing |-> Unreadable,
     changelog |-> Content({"not found"}),
     workflow |-> Content({}),
     agent_py |-> Content({"agent.py", "time.sleep"})]

\* file_read raises for every path.
FilesUnreadable ==
    [requirements |-> Unreadable, contributing |-> Unreadable,
     changelog |-> Unreadable, workflow |-> Unreadable, agent_py |-> Unreadable]

FileStates == {FilesClean, FilesNoContributing, FilesBare, FilesUnreadable}

\* file_read(path)
file_read(path) == remote.files[path]

\* An open item of the repository: an issue, or a pull request (which the
\* issues endpoint lists too, with a pull_request key).
Item(number, title, body, is_pr, author) ==
    [number |-> number, title |-> title, body |-> body, is_pr |-> is_pr,
     author |-> author, comments |-> 0]

UserIssue == Item(1, "Fix Bug", Unset, FALSE, "user")

UserPR == Item(2, "Refactor parser for readability", "text", TRUE, "user")

SecondIssue == Item(3, "Add dark mode", "text", FALSE, "user")

\* An item the listing gives without its title key (a malformed object).
BrokenIssue == Item(1, Unset, "text", FALSE, "user")

SecondUserIssue == Item(2, "Fix Bug", Unset, FALSE, "user")

FirstPR == Item(1, "Refactor parser for readability", "text", TRUE, "user")

ThirdPR == Item(3, "Bump dependency versions", "text", TRUE, "user")

InitialIssues ==
    {<<>>, <<UserIssue>>, <<UserIssue, UserPR>>, <<UserIssue, UserPR, SecondIssue>>,
     <<BrokenIssue, SecondUserIssue>>, <<FirstPR, UserPR, ThirdPR>>}

\* The JSON object GitHub lists for an item.
IssueJson(it) ==
    IF it.title = Unset
    THEN [number |-> it.number, body |-> it.body, labels |-> <<>>]
    ELSE IF it.is_pr
    THEN [number |-> it.number, title |-> it.title, body |-> it.body,
          labels |-> <<>>, pull_request |-> "url"]
    ELSE [number |-> it.number, title |-> it.title, body |-> it.body,
          labels |-> <<>>]

PullJson(it) ==
    IF it.title = Unset
    THEN [number |-> it.number, body |-> it.body]
    ELSE [number |-> it.number, title |-> it.title, body |-> it.body]

RECURSIVE ListIssues(_)
ListIssues(items) ==
    IF items = <<>> THEN <<>>
    ELSE <<IssueJson(Head(items))>> \o ListIssues(Tail(items))

RECURSIVE ListPulls(_)
ListPulls(items) ==
    IF items = <<>> THEN <<>>
    ELSE (IF Head(items).is_pr THEN <<PullJson(Head(items))>> ELSE <<>>)
             \o ListPulls(Tail(items))

ApiBase == "https://api.github.com/repos/" \o RemoteRepo

\* The items GitHub puts on one page of a listing (per_page).
PerPage == 2

\* The pages a listing of n items has (an empty listing is one empty page).
Pages(n) == IF n = 0 THEN 1 ELSE (n + PerPage - 1) \div PerPage

\* A request without a page parameter is answered with the first page.
FirstPage(items) ==
    SubSeq(items, 1, IF Len(items) < PerPage THEN Len(items) ELSE PerPage)

\* GitHub's answer to one request, and the repository after it. `mode` is
\* what the network does with this request: "ok", "rejected" (a 403 with a
\* message) or "error" (the connection fails).
Serve(rem, req, mode) ==
    LET verb == Upper(req.verb)
        n == Len(rem.issues) + 1
        hit == {k \in DOMAIN rem.issues :
                   req.url = ApiBase \o "/issues/"
                                 \o ToString(rem.issues[k].number) \o "/comments"}
        k0 == CHOOSE k \in hit : TRUE
    IN CASE mode = "error" -> [outcome |-> ConnectionError, remote |-> rem]
         [] mode = "rejected" ->
              [outcome |-> Response(403, TRUE, JObject([message |-> "rejected"])),
               remote |-> rem]
         [] mode = "ok" /\ verb = "GET" /\ req.url = ApiBase \o "/issues?state=open" ->
              [outcome |-> Response(200, TRUE, JList(FirstPage(ListIssues(rem.issues)))),
               remote |-> rem]
         [] mode = "ok" /\ verb = "GET" /\ req.url = ApiBase \o "/pulls?state=open" ->
              [outcome |-> Response(200, TRUE, JList(FirstPage(ListPulls(rem.issues)))),
               remote |-> rem]
         [] mode = "ok" /\ verb = "POST" /\ req.url = ApiBase \o "/issues"
               /\ req.hasJson ->
              [outcome |-> Response(201, TRUE,
                                    JObject([number |-> n, title |-> req.json.title])),
               remote |-> [rem EXCEPT !.issues =
                              Append(@, Item(n, req.json.title, "text", FALSE, "agent"))]]
         [] mode = "ok" /\ verb = "POST" /\ hit # {} /\ req.hasJson ->
              [outcome |-> Response(201, TRUE, JObject([id |-> 1])),
               remote |-> [rem EXCEPT !.issues[k0].comments = @ + 1]]
         [] mode = "ok" /\ verb = "GET"
               /\ req.url = ApiBase \o "/git/ref/heads/main" ->
              [outcome |-> Response(200, TRUE, JObject([object |-> [sha |-> "abc"]])),
               remote |-> rem]
         [] mode = "ok" /\ verb = "POST" /\ req.url = ApiBase \o "/git/refs"
               /\ req.hasJson ->
              [outcome |-> Response(201, TRUE, JObject([ref |-> req.json.ref])),
               remote |-> rem]
         [] mode = "ok" /\ verb = "PUT" /\ req.url = ApiBase \o "/contents/README.md"
               /\ req.hasJson ->
              [outcome |-> Response(201, TRUE, JObject([content |-> "README.md"])),
               remote |-> rem]
         [] mode = "ok" /\ verb = "POST" /\ req.url = ApiBase \o "/pulls"
               /\ req.hasJson ->
              [outcome |-> Response(201, TRUE,
                                    JObject([number |-> n, title |-> req.json.title])),
               remote |-> [rem EXCEPT !.issues =
                              Append(@, Item(n, req.json.title, "text", TRUE, "agent"))]]
         [] mode = "ok" /\ verb = "GET" /\ req.url = ApiBase ->
              [outcome |-> Response(200, TRUE, JObject(rem.info)), remote |-> rem]
         [] mode = "ok" /\ verb = "GET" /\ req.url = ApiBase \o "/languages" ->
              [outcome |-> Response(200, TRUE, rem.languages), remote |-> rem]
         [] OTHER ->
              [outcome |-> Response(404, TRUE, JObject([message |-> "Not Found"])),
               remote |-> rem]

(***************************************************************************)
(* agent.py: one run of a tool. A session threads the repository and the   *)
(* requests issued through the calls of the run; since the network may     *)
(* fail a request, each step gives the set of sessions it can end in.      *)
(***************************************************************************)

\* The session at the start of a run, in which at most `failures` requests
\* meet a rejection or a connection error. `failed` holds the positions in
\* `sent` of the requests that were not answered with a success.
NoListing == [some |-> FALSE, items |-> <<>>]

NoReport == [some |-> FALSE]

Session(failures) ==
    [remote |-> remote, sent |-> <<>>, failures |-> failures,
     reply |-> NoResult, actions |-> <<>>, text |-> "", raised |-> "",
     listed |-> [issues |-> NoListing, pulls |-> NoListing],
     all_actions |-> <<>>, args |-> <<>>, failed |-> {}, report |-> NoReport]

\* What a listing call gave, kept when it is a list.
Listed(s, which) ==
    IF s.reply.kind = "list"
    THEN [s EXCEPT !.listed[which] = [some |-> TRUE, items |-> s.reply.val.items]]
    ELSE s

NetworkModes(s) == IF s.failures > 0 THEN {"ok", "rejected", "error"} ELSE {"ok"}

\* One HTTP request of the run goes out and is answered.
Exchange(s, req) ==
    UNION {{[outcome |-> srv.outcome,
             session |-> [s EXCEPT !.remote = srv.remote,
                                   !.sent = Append(@, req),
                                   !.failures = IF m = "ok" THEN @ ELSE @ - 1,
                                   !.failed = IF /\ srv.outcome.type = "response"
                                                 /\ srv.outcome.status < 400
                                              THEN @
                                              ELSE @ \cup {Len(s.sent) + 1}]]
              : srv \in {Serve(s.remote, req, m)}}
           : m \in NetworkModes(s)}

\* The reply of github_api to an outcome of its http_request call.
github_api_reply(outcome) ==
    IF http_request_call(outcome).raised
    THEN Handle(github_api_except(http_request_call(outcome).exc)).result
    ELSE Return(http_request_call(outcome).value).result

\* github_api(endpoint, method, data) within a run: the guard, the
\* http_request call and the except clause of the tool.
github_api_in(s, c) ==
    IF github_api_guard.raised
    THEN {[s EXCEPT !.reply = RError("GitHub token not available")]}
    ELSE {[x.session EXCEPT !.reply = github_api_reply(x.outcome)]
             : x \in Exchange(s, github_api_kwargs(c.method, c.endpoint, c.data))}

\* The return of make_request for an outcome of its requests call.
make_request_reply(outcome) ==
    IF requests_call(outcome).raised
    THEN Handle(make_request_except(requests_call(outcome).exc)).result
    ELSE Return(make_request_response(requests_call(outcome).value)).result

\* A call of the GitHubAPI client within a run: make_request from its first
\* line to its return.
make_request_in(s, c) ==
    IF ~httpLib THEN {[s EXCEPT !.reply = RNone]}
    ELSE IF make_request_dispatch(c.method).raised
    THEN {[s EXCEPT !.reply = Handle(make_request_except("ValueError")).result]}
    ELSE {[x.session EXCEPT !.reply = make_request_reply(x.outcome)]
             : x \in Exchange(s, make_request_kwargs(c.method, c.endpoint, c.data))}

\* f"/repos/{self.repo}{rest}"
RepoEndpoint(rest) == [lead |-> 1, path |-> "repos/" \o agent.repo \o rest]

\* create_improvement_issue(title, description, labels): no look at the open
\* issues, one POST to the issues endpoint.
create_improvement_issue(s, title, description, labels) ==
    IF ~TruthyStr(agent.token)
    THEN {[s EXCEPT !.text = "GitHub token not available"]}
    ELSE LET issue_data == [title |-> title, body |-> description, labels |-> labels]
         IN {IF Has(s1.reply, "number")
             THEN [s1 EXCEPT !.text = "Created issue: " \o title]
             ELSE IF s1.reply.kind = "dict"
             THEN [s1 EXCEPT !.text = "Failed to create issue: " \o title]
             ELSE [s1 EXCEPT !.text = "Error creating issue: " \o title]
                : s1 \in github_api_in(s, github_api(RepoEndpoint("/issues"), "POST",
                                                     Dict(issue_data)))}

\* A pr_data that lets the file changes through.
pr_data_with_file_changes(title, description, branch_name) ==
    [title |-> title, body |-> description, head |-> branch_name, base |-> "main",
     file_changes |-> branch_name]

\* pr_data of create_improvement_pr
pr_data(title, description, branch_name) ==
    [title |-> title, body |-> description, head |-> branch_name, base |-> "main"]

\* The loop of create_improvement_pr over file_changes.items(): one PUT per
\* file, whose result is not looked at.
RECURSIVE put_files_loop(_, _, _)
put_files_loop(s, files, branch_name) ==
    IF files = <<>> THEN {s}
    ELSE UNION {put_files_loop(s1, Tail(files), branch_name)
                  : s1 \in github_api_in(s,
                               github_api(RepoEndpoint("/contents/" \o Head(files).path),
                                          "PUT",
                                          Dict([message |-> "AI improvement: Update "
                                                               \o Head(files).path,
                                                content |-> Head(files).content,
                                                branch |-> branch_name])))}

\* create_improvement_pr(title, description, branch_name, file_changes)
create_improvement_pr(s, title, description, branch_name, file_changes) ==
    IF ~TruthyStr(agent.token)
    THEN {[s EXCEPT !.text = "GitHub token not available"]}
    ELSE UNION {
           IF ~Has(s1.reply, "object")
           THEN {[s1 EXCEPT !.text = "Could not get main branch reference"]}
           ELSE UNION {UNION {{IF Has(s4.reply, "number")
                               THEN [s4 EXCEPT !.text = "Created PR: " \o title]
                               ELSE [s4 EXCEPT !.text = "Failed to create PR"]
                                  : s4 \in github_api_in(s3,
                                               github_api(RepoEndpoint("/pulls"), "POST",
                                                          Dict(pr_data(title, description,
                                                                       branch_name))))}
                                : s3 \in put_files_loop(s2, file_changes, branch_name)}
                         : s2 \in github_api_in(s1,
                                      github_api(RepoEndpoint("/git/refs"), "POST",
                                                 Dict([ref |-> "refs/heads/" \o branch_name,
                                                       sha |-> s1.reply.val.object.sha])))}
              : s1 \in github_api_in(s, github_api(RepoEndpoint("/git/ref/heads/main"),
                                                   "GET", PyNone))}

\* One section of proactive_repository_analysis: the issue is created when
\* the section found something, and its result joins actions_taken.
Section(s, found, title, labels) ==
    IF found = <<>> THEN {s}
    ELSE {[s1 EXCEPT !.actions = Append(@, s1.text)]
             : s1 \in create_improvement_issue(s, title, found, labels)}

\* `[x] if x not in content` for one substring.
Missing(content, substring, finding) ==
    IF substring \in content.has THEN <<>> ELSE <<finding>>

security_issues ==
    LET c == file_read("requirements")
    IN IF c.raised \/ "requirements.txt" \notin c.has THEN <<>>
       ELSE Missing(c, "safety", "Missing security scanning tool (safety)")
            \o Missing(c, "bandit", "Missing static security analysis tool (bandit)")

quality_issues ==
    LET c == file_read("requirements")
    IN IF c.raised THEN <<>>
       ELSE Missing(c, "black", "Missing code formatter (black)")
            \o Missing(c, "pylint", "Missing linter (pylint)")
            \o Missing(c, "pytest", "Missing testing framework (pytest)")

\* A document is missing when file_read raises or its answer says "not found".
MissingDoc(path, finding) ==
    LET c == file_read(path)
    IN IF c.raised \/ "not found" \in c.has THEN <<finding>> ELSE <<>>

doc_issues ==
    MissingDoc("contributing", "Missing CONTRIBUTING.md")
        \o MissingDoc("changelog", "Missing CHANGELOG.md")

perf_issues ==
    LET c == file_read("requirements")
    IN IF c.raised THEN <<>>
       ELSE Missing(c, "psutil", "Missing performance monitoring (psutil)")
            \o Missing(c, "memory-profiler", "Missing memory profiling tools")

cicd_issues ==
    LET c == file_read("workflow")
    IN IF c.raised THEN <<>>
       ELSE Missing(c, "test", "Missing automated testing in CI/CD")
            \o Missing(c, "security", "Missing security scanning in CI/CD")

SecurityTitle == "Security: Add security scanning and hardening tools"

QualityTitle == "Code Quality: Implement formatting, linting, and testing"

DocumentationTitle == "Documentation: Add missing project documentation"

PerformanceTitle == "Performance: Add monitoring and optimization tools"

CicdTitle == "CI/CD: Enhance automation and testing pipeline"

OptimizeTitle == "Performance: Optimize system performance and add monitoring"

\* proactive_repository_analysis(): the five sections in order.
proactive_repository_analysis(s) ==
    LET S1 == Section(s, security_issues, SecurityTitle,
                      <<"security", "enhancement", "ai-generated">>)
        S2 == UNION {Section(s1, quality_issues, QualityTitle,
                             <<"code-quality", "enhancement", "ai-generated">>)
                        : s1 \in S1}
        S3 == UNION {Section(s2, doc_issues, DocumentationTitle,
                             <<"documentation", "enhancement", "ai-generated">>)
                        : s2 \in S2}
        S4 == UNION {Section(s3, perf_issues, PerformanceTitle,
                             <<"performance", "enhancement", "ai-generated">>)
                        : s3 \in S3}
        S5 == UNION {Section(s4, cicd_issues, CicdTitle,
                             <<"ci-cd", "enhancement", "ai-generated">>)
                        : s4 \in S4}
    IN {[s5 EXCEPT !.text = IF s5.actions # <<>> THEN "PROACTIVE ANALYSIS COMPLETED"
                            ELSE "No immediate improvements needed"]
           : s5 \in S5}

\* The findings of detect_performance_issues: an exception of file_read
\* keeps what was found before it and adds "Could not analyze files".
performance_issues ==
    LET a == file_read("agent_py")
        r == file_read("requirements")
        in_agent == IF "agent.py" \in a.has
                    THEN (IF "time.sleep" \in a.has
                          THEN <<"Blocking sleep calls detected in agent.py">>
                          ELSE <<>>)
                         \o (IF "for" \in a.has /\ "range" \in a.has
                             THEN <<"Potential inefficient loops in agent.py">>
                             ELSE <<>>)
                    ELSE <<>>
        heavy == IF "requirements.txt" \in r.has
                 THEN (IF "tensorflow" \in r.has
                       THEN <<"Heavy dependency detected: tensorflow">> ELSE <<>>)
                      \o (IF "torch" \in r.has
                          THEN <<"Heavy dependency detected: torch">> ELSE <<>>)
                      \o (IF "transformers" \in r.has
                          THEN <<"Heavy dependency detected: transformers">> ELSE <<>>)
                      \o (IF "scikit-learn" \in r.has
                          THEN <<"Heavy dependency detected: scikit-learn">> ELSE <<>>)
                 ELSE <<>>
    IN IF a.raised THEN <<"Could not analyze files">>
       ELSE IF r.raised THEN in_agent \o <<"Could not analyze files">>
       ELSE in_agent \o heavy
            \o Missing(r, "psutil", "Missing performance monitoring tools")
            \o Missing(r, "memory-profiler", "Missing memory profiling capabilities")

\* detect_performance_issues()
detect_performance_issues(s) ==
    IF performance_issues # <<>>
    THEN {[s1 EXCEPT !.text = "Performance issues detected and issue created: "
                                  \o s1.text]
             : s1 \in create_improvement_issue(s, OptimizeTitle, performance_issues,
                          <<"performance", "optimization", "ai-generated",
                            "high-priority">>)}
    ELSE {[s EXCEPT !.text = "No significant performance issues detected"]}

\* The keywords of the tools that a text holds, case folded
\* (`keyword in text.lower()`), for the texts the model draws.
Words(text) ==
    CASE text = "Fix Bug" -> {"fix", "bug"}
      [] text = "Refactor parser for readability" -> {"refactor"}
      [] text = "Add dark mode" -> {"add"}
      [] text = "Improve docs" -> {"improve", "doc"}
      [] text = SecurityTitle -> {"security", "add"}
      [] text = PerformanceTitle -> {"performance", "add"}
      [] text = OptimizeTitle -> {"performance", "optimize", "add"}
      [] text = DocumentationTitle -> {"doc", "documentation", "add"}
      [] text = "CVE in parser" -> {"cve"}
      [] text = "Slow startup" -> {"slow"}
      [] text = "README typo" -> {"readme"}
      [] OTHER -> {}

AnyIn(keywords, title, body) ==
    \E k \in keywords : k \in Words(title) \/ k \in Words(body)

\* The categorisation of analyze_and_act_on_issue: the first match wins.
IssueType(title, body) ==
    IF AnyIn({"bug", "error", "fail", "broken", "crash"}, title, body) THEN "bug"
    ELSE IF AnyIn({"feature", "enhancement", "improve", "add"}, title, body)
    THEN "enhancement"
    ELSE IF AnyIn({"security", "vulnerability", "cve"}, title, body) THEN "security"
    ELSE IF AnyIn({"performance", "slow", "optimize", "speed"}, title, body)
    THEN "performance"
    ELSE IF AnyIn({"doc", "documentation", "readme"}, title, body)
    THEN "documentation"
    ELSE "general"

\* A priority that is High for bugs only.
Priority_bug_only(issue_type) ==
    IF issue_type = "bug" THEN "High"
    ELSE IF issue_type = "performance" THEN "Medium"
    ELSE "Normal"

\* `"High" if issue_type in ["security", "bug"] else "Medium" if issue_type ==
\* "performance" else "Normal"`
Priority(issue_type) ==
    IF issue_type \in {"security", "bug"} THEN "High"
    ELSE IF issue_type = "performance" THEN "Medium"
    ELSE "Normal"

\* `x or ""`
OrEmpty(x) == IF TruthyStr(x) THEN x ELSE ""

\* analyze_and_act_on_issue(issue_number, title, body, labels): the comment is
\* posted whatever the issue already carries.
analyze_and_act_on_issue(s, issue_number, title, body, labels) ==
    LET issue_type == IssueType(title, body)
        comment_body == "AI Agent Analysis. Issue Type: " \o issue_type
                            \o ". Estimated Priority: " \o Priority(issue_type)
    IN {IF Has(s1.reply, "id")
        THEN [s1 EXCEPT !.text = "Analyzed and commented on " \o issue_type \o " issue"]
        ELSE [s1 EXCEPT !.text = "Analyzed " \o issue_type
                                     \o " issue but failed to comment"]
           : s1 \in github_api_in(s,
                        github_api(RepoEndpoint("/issues/" \o ToString(issue_number)
                                                    \o "/comments"),
                                   "POST", Dict([body |-> comment_body])))}

\* A loop that comments on the items with a pull_request key too.
RECURSIVE analyze_issues_loop_no_skip(_, _)
analyze_issues_loop_no_skip(s, issues) ==
    IF issues = <<>> THEN {s}
    ELSE LET issue == Head(issues)
         IN IF {"number", "title", "body"} \ DOMAIN issue # {}
            THEN {[s EXCEPT !.raised = "KeyError"]}
            ELSE UNION {analyze_issues_loop_no_skip(s2, Tail(issues))
                          : s2 \in {[s1 EXCEPT !.actions = Append(@, s1.text)]
                                      : s1 \in analyze_and_act_on_issue(
                                                   s, issue.number, issue.title,
                                                   OrEmpty(issue.body), issue.labels)}}

\* The loop of analyze_existing_issues over the listed items: an item with a
\* pull_request key is skipped, every other one is analysed and commented.
\* issue['number'], issue['title'] and issue['body'] are read first: a missing
\* key raises KeyError, which leaves the loop.
RECURSIVE analyze_issues_loop(_, _)
analyze_issues_loop(s, issues) ==
    IF issues = <<>> THEN {s}
    ELSE LET issue == Head(issues)
         IN IF {"number", "title", "body"} \ DOMAIN issue # {}
            THEN {[s EXCEPT !.raised = "KeyError"]}
            ELSE IF "pull_request" \in DOMAIN issue
            THEN analyze_issues_loop(s, Tail(issues))
            ELSE UNION {analyze_issues_loop(s2, Tail(issues))
                          : s2 \in {[s1 EXCEPT !.actions = Append(@, s1.text)]
                                      : s1 \in analyze_and_act_on_issue(
                                                   s, issue.number, issue.title,
                                                   OrEmpty(issue.body), issue.labels)}}

\* analyze_existing_issues()
analyze_existing_issues(s) ==
    IF ~TruthyStr(agent.token)
    THEN {[s EXCEPT !.text = "GitHub token not available"]}
    ELSE UNION {IF s1.reply.kind # "list"
                THEN {[s1 EXCEPT !.text = "Could not fetch issues"]}
                ELSE IF s1.reply.val.items = <<>>
                THEN {[s1 EXCEPT !.text = "No open issues found"]}
                ELSE {IF s2.raised # ""
                      THEN [s2 EXCEPT !.text = "Error analyzing issues: " \o s2.raised,
                                      !.raised = ""]
                      ELSE [s2 EXCEPT !.text = "ISSUE ANALYSIS COMPLETED"]
                         : s2 \in analyze_issues_loop(s1, s1.reply.val.items)}
                   : s1 \in {Listed(x, "issues")
                               : x \in github_api_in(s, github_api(
                                     RepoEndpoint("/issues?state=open"), "GET", PyNone))}}

\* The review points of provide_pr_review.
review_points(title, body) ==
    (IF Len(title) < 10
     THEN <<"Consider making the PR title more descriptive">> ELSE <<>>)
    \o (IF Len(body) < 50
        THEN <<"Please add a more detailed description of the changes">> ELSE <<>>)
    \o (IF "fix" \in Words(title)
        THEN <<"Bug fix detected - ensure tests are included">>
        ELSE IF "feat" \in Words(title) \/ "feature" \in Words(title)
        THEN <<"New feature detected - verify documentation is updated">>
        ELSE IF "refactor" \in Words(title)
        THEN <<"Refactoring detected - ensure no breaking changes">>
        ELSE <<>>)

\* provide_pr_review(pr_number, title, body): the review is posted whatever
\* the pull request already carries.
provide_pr_review(s, pr_number, title, body) ==
    LET review_body == IF review_points(title, body) # <<>>
                       THEN "AI Code Review. Review Points"
                       ELSE "AI Code Review. Looks Good"
    IN {IF Has(s1.reply, "id")
        THEN [s1 EXCEPT !.text = "Provided comprehensive review"]
        ELSE [s1 EXCEPT !.text = "Analyzed but failed to post review"]
           : s1 \in github_api_in(s,
                        github_api(RepoEndpoint("/issues/" \o ToString(pr_number)
                                                    \o "/comments"),
                                   "POST", Dict([body |-> review_body])))}

RECURSIVE analyze_prs_loop(_, _)
analyze_prs_loop(s, prs) ==
    IF prs = <<>> THEN {s}
    ELSE LET pr == Head(prs)
         IN IF {"number", "title", "body"} \ DOMAIN pr # {}
            THEN {[s EXCEPT !.raised = "KeyError"]}
            ELSE
            UNION {analyze_prs_loop(s2, Tail(prs))
                     : s2 \in {[s1 EXCEPT !.actions = Append(@, s1.text)]
                                 : s1 \in provide_pr_review(s, pr.number, pr.title,
                                                            OrEmpty(pr.body))}}

\* analyze_pull_requests()
analyze_pull_requests(s) ==
    IF ~TruthyStr(agent.token)
    THEN {[s EXCEPT !.text = "GitHub token not available"]}
    ELSE UNION {IF s1.reply.kind # "list"
                THEN {[s1 EXCEPT !.text = "Could not fetch PRs"]}
                ELSE IF s1.reply.val.items = <<>>
                THEN {[s1 EXCEPT !.text = "No open pull requests found"]}
                ELSE {IF s2.raised # ""
                      THEN [s2 EXCEPT !.text = "Error analyzing PRs: " \o s2.raised,
                                      !.raised = ""]
                      ELSE [s2 EXCEPT !.text = "PULL REQUEST ANALYSIS COMPLETED"]
                         : s2 \in analyze_prs_loop(s1, s1.reply.val.items)}
                   : s1 \in {Listed(x, "pulls")
                               : x \in github_api_in(s, github_api(
                                     RepoEndpoint("/pulls?state=open"), "GET", PyNone))}}

\* One step of comprehensive_repository_action has returned: its result joins
\* all_actions under its label, and the next tool starts with its own
\* actions_taken.
Step(s, label) ==
    [s EXCEPT !.all_actions = Append(@, [label |-> label, text |-> s.text]),
              !.actions = <<>>]

\* A step result that reports a failure.
Failed(text) ==
    text \in {"GitHub token not available", "Could not fetch issues",
              "Could not fetch PRs"}

\* A comprehensive action that gives up at the first step that failed.
comprehensive_repository_action_until_failure(s) ==
    LET S1 == {Step(s1, "Issue Analysis") : s1 \in analyze_existing_issues(s)}
        S2 == UNION {IF Failed(s1.text) THEN {s1}
                     ELSE {Step(s2, "PR Analysis") : s2 \in analyze_pull_requests(s1)}
                        : s1 \in S1}
        S3 == UNION {IF Failed(s2.text) THEN {s2}
                     ELSE {Step(s3, "Performance Analysis")
                              : s3 \in detect_performance_issues(s2)}
                        : s2 \in S2}
        S4 == UNION {IF Failed(s3.text) THEN {s3}
                     ELSE {Step(s4, "Proactive Analysis")
                              : s4 \in proactive_repository_analysis(s3)}
                        : s3 \in S3}
    IN {[s4 EXCEPT !.text = "COMPREHENSIVE REPOSITORY ACTION COMPLETED"] : s4 \in S4}

\* comprehensive_repository_action(): the four tools one after the other,
\* each result appended to all_actions.
comprehensive_repository_action(s) ==
    LET S1 == {Step(s1, "Issue Analysis") : s1 \in analyze_existing_issues(s)}
        S2 == UNION {{Step(s2, "PR Analysis") : s2 \in analyze_pull_requests(s1)}
                        : s1 \in S1}
        S3 == UNION {{Step(s3, "Performance Analysis")
                         : s3 \in detect_performance_issues(s2)}
                        : s2 \in S2}
        S4 == UNION {{Step(s4, "Proactive Analysis")
                         : s4 \in proactive_repository_analysis(s3)}
                        : s3 \in S3}
    IN {[s4 EXCEPT !.text = "COMPREHENSIVE REPOSITORY ACTION COMPLETED"] : s4 \in S4}

(***************************************************************************)
(* Runs of the tools against the repository (SpecRuns).                    *)
(***************************************************************************)

\* The tool runs a behaviour holds.
MaxRuns == 2

\* The requests of one run that the network may fail.
MaxFailures == 1

\* The outcome of a run: what it did to the repository, the requests it
\* issued, and the text it returned.
Ran(tool, s) ==
    /\ remote' = s.remote
    /\ sent' = s.sent
    /\ result' = [kind |-> "text", tool |-> tool, text |-> s.text,
                  actions |-> s.actions, listed |-> s.listed,
                  all_actions |-> s.all_actions, args |-> s.args, reply |-> s.reply]
    /\ runs' = runs + 1
    /\ UNCHANGED <<env, httpLib, api, agent, pc, cur, prev, metrics, callers, chat, setup>>

RunProactiveAnalysis ==
    /\ runs < MaxRuns
    /\ \E s \in proactive_repository_analysis(Session(MaxFailures)) :
         Ran("proactive_repository_analysis", s)

RunDetectPerformanceIssues ==
    /\ runs < MaxRuns
    /\ \E s \in detect_performance_issues(Session(MaxFailures)) :
         Ran("detect_performance_issues", s)

RunAnalyzeExistingIssues ==
    /\ runs < MaxRuns
    /\ \E s \in analyze_existing_issues(Session(MaxFailures)) :
         Ran("analyze_existing_issues", s)

RunAnalyzePullRequests ==
    /\ runs < MaxRuns
    /\ \E s \in analyze_pull_requests(Session(MaxFailures)) :
         Ran("analyze_pull_requests", s)

\* GitHubAPI.get_issues() / GitHubAPI.get_pull_requests()
RunListOpen ==
    /\ runs < MaxRuns
    /\ api.state = "ready"
    /\ \E c \in {get_issues("open"), get_pull_requests("open")} :
         \E s \in {Listed(x, IF c.op = "get_issues" THEN "issues" ELSE "pulls")
                     : x \in make_request_in(Session(MaxFailures), c)} :
           Ran(c.op, s)

\* The arguments create_improvement_pr is called with.
PRInputs ==
    {[title |-> t, description |-> "d", branch_name |-> "ai/improve",
      file_changes |-> f]
        : t \in {"", "Improve docs"},
          f \in {<<>>, <<[path |-> "README.md", content |-> "c"]>>}}

RunCreateImprovementPr ==
    /\ runs < MaxRuns
    /\ \E a \in PRInputs :
         \E s0 \in {[Session(MaxFailures) EXCEPT !.args = a]} :
           \E s \in create_improvement_pr(s0, a.title, a.description, a.branch_name,
                                           a.file_changes) :
             Ran("create_improvement_pr", s)

RunComprehensiveAction ==
    /\ runs < MaxRuns
    /\ \E s \in comprehensive_repository_action(Session(MaxFailures)) :
         Ran("comprehensive_repository_action", s)

InitRuns ==
    /\ env \in [GITHUB_TOKEN : TokenValues, GITHUB_REPOSITORY : RepoValues]
    /\ httpLib = TRUE
    /\ api = GitHubAPI_new
    /\ agent = UnifiedGitHubAgent_new
    /\ pc = "Idle"
    /\ cur = NoCall
    /\ sent = <<>>
    /\ result = NoResult
    /\ prev = NoPrev
    /\ remote \in [files : FileStates, issues : InitialIssues]
    /\ runs = 0
    /\ metrics = NoMetrics
    /\ callers = [t \in Callers |-> IdleCaller]
    /\ chat = NoChat
    /\ setup = NoSetup

NextRuns ==
    \/ RunProactiveAnalysis
    \/ RunDetectPerformanceIssues
    \/ RunAnalyzeExistingIssues
    \/ RunAnalyzePullRequests
    \/ RunListOpen
    \/ RunCreateImprovementPr
    \/ RunComprehensiveAction

SpecRuns == InitRuns /\ [][NextRuns]_vars

(***************************************************************************)
(* meta_tooling_agent.py: the github_api tool of MetaToolingMultiAgent and  *)
(* _record_tool_performance, called by concurrent callers (SpecMeta). One  *)
(* step per read or write of the shared metrics.                            *)
(***************************************************************************)

MetaToolingMultiAgent_new ==
    [state |-> "ready",
     repo |-> getenv("GITHUB_REPOSITORY", "unknown/repo"),
     token |-> getenv("GITHUB_TOKEN", Unset)]

\* The calls each caller makes.
MaxCalls == 2

\* github_api up to the end of its http_request call, which returned
\* (success) or raised. Without a token the tool returns its error dict and
\* touches nothing.
MetaGithubApiCall(t) ==
    /\ callers[t].pc = "idle"
    /\ callers[t].calls < MaxCalls
    /\ TruthyStr(agent.token)
    /\ \E ok \in BOOLEAN :
         callers' = [callers EXCEPT ![t].pc = "check", ![t].success = ok]
    /\ UNCHANGED <<env, httpLib, api, agent, pc, cur, sent, result, prev, remote,
                   runs, metrics, chat, setup>>

\* `if tool_name not in self.meta_engine.tool_performance_metrics`
MetaRecordCheck(t) ==
    /\ callers[t].pc = "check"
    /\ callers' = [callers EXCEPT
                      ![t].pc = IF metrics.current = 0 THEN "create" ELSE "fetch"]
    /\ UNCHANGED <<env, httpLib, api, agent, pc, cur, sent, result, prev, remote,
                   runs, metrics, chat, setup>>

\* `tool_performance_metrics[tool_name] = {'total_calls': 0, ...}`
MetaRecordCreate(t) ==
    /\ callers[t].pc = "create"
    /\ metrics' = [metrics EXCEPT !.current = t, !.objects[t] = ZeroEntry]
    /\ callers' = [callers EXCEPT ![t].pc = "fetch"]
    /\ UNCHANGED <<env, httpLib, api, agent, pc, cur, sent, result, prev, remote,
                   runs, chat, setup>>

\* `metrics = self.meta_engine.tool_performance_metrics[tool_name]`
MetaRecordFetch(t) ==
    /\ callers[t].pc = "fetch"
    /\ callers' = [callers EXCEPT ![t].pc = "load_total", ![t].ref = metrics.current]
    /\ UNCHANGED <<env, httpLib, api, agent, pc, cur, sent, result, prev, remote,
                   runs, metrics, chat, setup>>

\* `metrics['total_calls'] += 1`: the read
MetaLoadTotal(t) ==
    /\ callers[t].pc = "load_total"
    /\ callers' = [callers EXCEPT
                      ![t].pc = "store_total",
                      ![t].tmp = metrics.objects[callers[t].ref].total_calls]
    /\ UNCHANGED <<env, httpLib, api, agent, pc, cur, sent, result, prev, remote,
                   runs, metrics, chat, setup>>

\* `metrics['total_calls'] += 1`: the write
MetaStoreTotal(t) ==
    /\ callers[t].pc = "store_total"
    /\ metrics' = [metrics EXCEPT
                      !.objects[callers[t].ref].total_calls = callers[t].tmp + 1]
    /\ callers' = [callers EXCEPT
                      ![t].pc = IF callers[t].success THEN "load_successful"
                                ELSE "return"]
    /\ UNCHANGED <<env, httpLib, api, agent, pc, cur, sent, result, prev, remote,
                   runs, chat, setup>>

\* `if success: metrics['successful_calls'] += 1`: the read
MetaLoadSuccessful(t) ==
    /\ callers[t].pc = "load_successful"
    /\ callers' = [callers EXCEPT
                      ![t].pc = "store_successful",
                      ![t].tmp = metrics.objects[callers[t].ref].successful_calls]
    /\ UNCHANGED <<env, httpLib, api, agent, pc, cur, sent, result, prev, remote,
                   runs, metrics, chat, setup>>

\* `if success: metrics['successful_calls'] += 1`: the write
MetaStoreSuccessful(t) ==
    /\ callers[t].pc = "store_successful"
    /\ metrics' = [metrics EXCEPT
                      !.objects[callers[t].ref].successful_calls = callers[t].tmp + 1]
    /\ callers' = [callers EXCEPT ![t].pc = "return"]
    /\ UNCHANGED <<env, httpLib, api, agent, pc, cur, sent, result, prev, remote,
                   runs, chat, setup>>

\* github_api returns to its caller.
MetaReturn(t) ==
    /\ callers[t].pc = "return"
    /\ callers' = [callers EXCEPT
                      ![t].pc = "idle",
                      ![t].calls = @ + 1,
                      ![t].successes = IF callers[t].success THEN @ + 1 ELSE @]
    /\ UNCHANGED <<env, httpLib, api, agent, pc, cur, sent, result, prev, remote,
                   runs, metrics, chat, setup>>

InitMeta ==
    /\ env \in [GITHUB_TOKEN : TokenValues, GITHUB_REPOSITORY : RepoValues]
    /\ httpLib = TRUE
    /\ api = GitHubAPI_new
    /\ agent = MetaToolingMultiAgent_new
    /\ pc = "Idle"
    /\ cur = NoCall
    /\ sent = <<>>
    /\ result = NoResult
    /\ prev = NoPrev
    /\ remote = NoRemote
    /\ runs = 0
    /\ metrics = NoMetrics
    /\ callers = [t \in Callers |-> IdleCaller]
    /\ chat = NoChat
    /\ setup = NoSetup

NextMeta ==
    \E t \in Callers :
        \/ MetaGithubApiCall(t)
        \/ MetaRecordCheck(t)
        \/ MetaRecordCreate(t)
        \/ MetaRecordFetch(t)
        \/ MetaLoadTotal(t)
        \/ MetaStoreTotal(t)
        \/ MetaLoadSuccessful(t)
        \/ MetaStoreSuccessful(t)
        \/ MetaReturn(t)

SpecMeta == InitMeta /\ [][NextMeta]_vars

(***************************************************************************)
(* setup.py: main, one step per stage of the installation.                 *)
(***************************************************************************)

\* The files main looks for before it writes them.
SetupFiles == {".github/workflows/agent.yml", ".gitignore", ".env.template"}

\* The functions setup.py defines at module level (its def statements).
SetupDefined ==
    {"print_step", "run_command", "check_prerequisites", "validate_openai_key",
     "check_existing_installation", "create_directory_structure",
     "create_agent_files", "create_workflow_file", "interactive_setup",
     "print_next_steps", "main"}

\* A call of a module-level name: a NameError when no def provides it.
SetupCall(name) == IF name \in SetupDefined THEN Value(name) ELSE Raise("NameError")

\* check_prerequisites(): one entry per check, git_repo and internet among
\* them.
check_prerequisites(machine) ==
    [python |-> machine.python, git |-> machine.git, pip |-> machine.pip,
     git_repo |-> machine.git_repo, internet |-> machine.internet]

\* failed_prereqs = [k for k, v in prereqs.items() if not v]
failed_prereqs(prereqs) == {k \in DOMAIN prereqs : ~prereqs[k]}

\* sys.exit(code), or the return of main (status "returned").
SetupExit(code, message) ==
    [setup EXCEPT !.pc = "over", !.status = code, !.message = message]

\* `except Exception as e: print_step(f"Setup failed: {e}", "error"); sys.exit(1)`
SetupExcept(exc) == SetupExit("1", "Setup failed: " \o exc)

\* One stage of the try block has run.
SetupDone(stage, next) ==
    [setup EXCEPT !.pc = next, !.done = Append(@, stage)]

\* prereqs = check_prerequisites(); any failed entry ends the script.
SetupCheckPrerequisites ==
    /\ setup.pc = "start"
    /\ setup' = IF failed_prereqs(check_prerequisites(setup.machine)) # {}
                THEN [SetupExit("1", "Missing prerequisites")
                         EXCEPT !.prereqs = check_prerequisites(setup.machine)]
                ELSE [setup EXCEPT !.pc = "checked",
                                   !.prereqs = check_prerequisites(setup.machine)]
    /\ UNCHANGED <<env, httpLib, api, agent, pc, cur, sent, result, prev, remote,
                   runs, metrics, callers, chat>>

\* `if args.check: ... return`
SetupCheckInstallation ==
    /\ setup.pc = "checked"
    /\ setup.args.check
    /\ setup' = SetupExit("returned", "Checking existing installation...")
    /\ UNCHANGED <<env, httpLib, api, agent, pc, cur, sent, result, prev, remote,
                   runs, metrics, callers, chat>>

\* `if not prereqs['git_repo']:` warn and ask; any answer but 'y' ends the
\* script with status 0.
SetupWarnNotGitRepo ==
    /\ setup.pc = "checked"
    /\ ~setup.args.check
    /\ IF ~setup.prereqs.git_repo
       THEN \E response \in {"y", "n", ""} :
              setup' = IF response # "y"
                       THEN [SetupExit("0", "Setup cancelled.")
                                EXCEPT !.asked = Append(@, "Continue anyway?")]
                       ELSE [setup EXCEPT !.pc = "directories",
                                          !.asked = Append(@, "Continue anyway?")]
       ELSE setup' = [setup EXCEPT !.pc = "directories"]
    /\ UNCHANGED <<env, httpLib, api, agent, pc, cur, sent, result, prev, remote,
                   runs, metrics, callers, chat>>

\* created_dirs = create_directory_structure()
SetupCreateDirectoryStructure ==
    /\ setup.pc = "directories"
    /\ setup' = SetupDone("directories", "agent files")
    /\ UNCHANGED <<env, httpLib, api, agent, pc, cur, sent, result, prev, remote,
                   runs, metrics, callers, chat>>

\* created_files = create_agent_files()
SetupCreateAgentFiles ==
    /\ setup.pc = "agent files"
    /\ setup' = SetupDone("agent files", "workflow")
    /\ UNCHANGED <<env, httpLib, api, agent, pc, cur, sent, result, prev, remote,
                   runs, metrics, callers, chat>>

\* workflow_created = create_workflow_file(): written unless it exists.
SetupCreateWorkflowFile ==
    /\ setup.pc = "workflow"
    /\ setup' = [SetupDone("workflow", ".gitignore")
                    EXCEPT !.fs = @ \cup {".github/workflows/agent.yml"}]
    /\ UNCHANGED <<env, httpLib, api, agent, pc, cur, sent, result, prev, remote,
                   runs, metrics, callers, chat>>

\* `if not Path(name).exists(): create()` for .gitignore and .env.template.
SetupCreateIfMissing(name, create, next) ==
    IF name \in setup.fs THEN [setup EXCEPT !.pc = next]
    ELSE IF SetupCall(create).raised THEN SetupExcept(SetupCall(create).exc)
    ELSE [SetupDone(name, next) EXCEPT !.fs = @ \cup {name}]

SetupCreateGitignore ==
    /\ setup.pc = ".gitignore"
    /\ setup' = SetupCreateIfMissing(".gitignore", "create_gitignore", ".env.template")
    /\ UNCHANGED <<env, httpLib, api, agent, pc, cur, sent, result, prev, remote,
                   runs, metrics, callers, chat>>

SetupCreateEnvTemplate ==
    /\ setup.pc = ".env.template"
    /\ setup' = SetupCreateIfMissing(".env.template", "create_env_template",
                                     "interactive")
    /\ UNCHANGED <<env, httpLib, api, agent, pc, cur, sent, result, prev, remote,
                   runs, metrics, callers, chat>>

\* `if args.interactive or (not args.quick and not args.update):` ask, and
\* run interactive_setup() on 'y'.
SetupInteractive ==
    /\ setup.pc = "interactive"
    /\ IF setup.args.interactive \/ (~setup.args.quick /\ ~setup.args.update)
       THEN \E response \in {"y", "n"} :
              setup' = [setup EXCEPT
                          !.pc = "next steps",
                          !.asked = Append(@, "configure interactively?"),
                          !.done = IF response = "y" THEN Append(@, "interactive")
                                   ELSE @]
       ELSE setup' = [setup EXCEPT !.pc = "next steps"]
    /\ UNCHANGED <<env, httpLib, api, agent, pc, cur, sent, result, prev, remote,
                   runs, metrics, callers, chat>>

\* print_next_steps(), and main returns.
SetupPrintNextSteps ==
    /\ setup.pc = "next steps"
    /\ setup' = [SetupExit("returned", "next steps")
                    EXCEPT !.done = Append(@, "print_next_steps")]
    /\ UNCHANGED <<env, httpLib, api, agent, pc, cur, sent, result, prev, remote,
                   runs, metrics, callers, chat>>

InitSetup ==
    /\ env = [GITHUB_TOKEN |-> Unset, GITHUB_REPOSITORY |-> Unset]
    /\ httpLib = TRUE
    /\ api = GitHubAPI_new
    /\ agent = UnifiedGitHubAgent_new
    /\ pc = "Idle"
    /\ cur = NoCall
    /\ sent = <<>>
    /\ result = NoResult
    /\ prev = NoPrev
    /\ remote = NoRemote
    /\ runs = 0
    /\ metrics = NoMetrics
    /\ callers = [t \in Callers |-> IdleCaller]
    /\ chat = NoChat
    /\ \E args \in [check : BOOLEAN, quick : BOOLEAN, update : BOOLEAN,
                    interactive : BOOLEAN],
          machine \in [python : BOOLEAN, git : BOOLEAN, pip : BOOLEAN,
                       git_repo : BOOLEAN, internet : BOOLEAN],
          fs \in SUBSET SetupFiles :
         setup = [pc |-> "start", args |-> args, machine |-> machine,
                  prereqs |-> [k \in {"python", "git", "pip", "git_repo",
                                       "internet"} |-> FALSE],
                  fs |-> fs, start |-> fs,
                  asked |-> <<>>, done |-> <<>>, status |-> "running",
                  message |-> ""]

NextSetup ==
    \/ SetupCheckPrerequisites
    \/ SetupCheckInstallation
    \/ SetupWarnNotGitRepo
    \/ SetupCreateDirectoryStructure
    \/ SetupCreateAgentFiles
    \/ SetupCreateWorkflowFile
    \/ SetupCreateGitignore
    \/ SetupCreateEnvTemplate
    \/ SetupInteractive
    \/ SetupPrintNextSteps

SpecSetup == InitSetup /\ [][NextSetup]_vars

(***************************************************************************)
(* agent.py: main and UnifiedGitHubAgent.process_message.                  *)
(***************************************************************************)

\* str.lower on the lines and messages the model draws.
Lower(s) ==
    CASE s = "Quit" -> "quit"
      [] s = "Mode" -> "mode"
      [] s = "Show live progress" -> "show live progress"
      [] s = "Complex refactor" -> "complex refactor"
      [] s = "Create Tool for labels" -> "create tool for labels"
      [] s = "Stream a custom multi report" -> "stream a custom multi report"
      [] OTHER -> s

\* str.strip on the pieces the model draws.
Strip(s) ==
    CASE s = "  " -> ""
      [] s = " basic" -> "basic"
      [] OTHER -> s

\* str.replace("mode", "") on the pieces the model draws.
ReplaceMode(s) ==
    CASE s = "mode" -> ""
      [] s = "modes" -> "s"
      [] OTHER -> s

\* A line is kept as its pieces between the colons; this is the line.
RECURSIVE JoinColon(_)
JoinColon(pieces) ==
    IF Len(pieces) = 1 THEN pieces[1]
    ELSE pieces[1] \o ":" \o JoinColon(Tail(pieces))

\* The lines typed at the prompt.
Lines ==
    {<<"exit">>, <<"Quit">>, <<"">>, <<"  ">>, <<"hello">>,
     <<"Show live progress">>, <<"Complex refactor">>,
     <<"Create Tool for labels">>, <<"Stream a custom multi report">>,
     <<"mode", "streaming hello">>, <<"mode", " basic">>, <<"mode", "">>,
     <<"mode", "advanced", "hello">>, <<"note", "mode">>, <<"Mode", "basic">>}

\* The keywords of process_message that a lower-cased message holds
\* (`keyword in message.lower()`).
MessageKeywords(lowered) ==
    CASE lowered = "show live progress" -> {"live", "progress"}
      [] lowered = "streaming hello" -> {"stream"}
      [] lowered = "complex refactor" -> {"complex"}
      [] lowered = "create tool for labels" -> {"create tool"}
      [] lowered = "stream a custom multi report" -> {"stream", "custom", "multi"}
      [] OTHER -> {}

\* _initialize_agents: an agent is set when its class was imported and its
\* constructor did not raise; it stays None otherwise.
initialize_agents(imported, constructed) ==
    [a \in {"advanced", "streaming", "meta"} |-> imported /\ constructed[a]]

\* The interactive loop's reading of a line: the mode and the message it
\* passes to process_message.
parse_line(pieces) ==
    IF Len(pieces) >= 2 /\ pieces[1] = "mode"
    THEN [mode |-> Strip(ReplaceMode(pieces[1])),
          q |-> Strip(JoinColon(Tail(pieces)))]
    ELSE [mode |-> "auto", q |-> JoinColon(pieces)]

\* process_message without the look at the agent: the path follows the mode.
process_message_by_mode_only(message, mode, agents) ==
    LET has(keywords) == keywords \cap MessageKeywords(Lower(message)) # {}
        resolved ==
            IF mode # "auto" THEN mode
            ELSE IF has({"stream", "real-time", "live", "progress"}) THEN "streaming"
            ELSE IF has({"create tool", "custom", "meta", "dynamic"})
            THEN "meta-tooling"
            ELSE IF has({"complex", "comprehensive", "multi", "specialist"})
            THEN "advanced"
            ELSE "basic"
    IN CASE resolved = "streaming" ->
              [resolved |-> resolved, path |-> "streaming",
               called |-> "streaming_agent", handed |-> message]
         [] resolved = "meta-tooling" ->
              [resolved |-> resolved, path |-> "meta-tooling",
               called |-> "meta_agent", handed |-> message]
         [] resolved = "advanced" ->
              [resolved |-> resolved, path |-> "advanced",
               called |-> "basic_agent", handed |-> "ADVANCED: " \o message]
         [] OTHER ->
              [resolved |-> resolved, path |-> "basic",
               called |-> "basic_agent", handed |-> message]

\* process_message(message, mode): the mode is resolved when it is "auto",
\* and the branch taken names the agent that is called and what it is given.
process_message(message, mode, agents) ==
    LET has(keywords) == keywords \cap MessageKeywords(Lower(message)) # {}
        resolved ==
            IF mode # "auto" THEN mode
            ELSE IF has({"stream", "real-time", "live", "progress"}) THEN "streaming"
            ELSE IF has({"create tool", "custom", "meta", "dynamic"})
            THEN "meta-tooling"
            ELSE IF has({"complex", "comprehensive", "multi", "specialist"})
            THEN "advanced"
            ELSE "basic"
    IN CASE resolved = "streaming" /\ agents["streaming"] ->
              [resolved |-> resolved, path |-> "streaming",
               called |-> "streaming_agent", handed |-> message]
         [] resolved = "meta-tooling" /\ agents["meta"] ->
              [resolved |-> resolved, path |-> "meta-tooling",
               called |-> "meta_agent", handed |-> message]
         [] resolved = "advanced" /\ agents["advanced"] ->
              [resolved |-> resolved, path |-> "advanced",
               called |-> "basic_agent", handed |-> "ADVANCED: " \o message]
         [] OTHER ->
              [resolved |-> resolved, path |-> "basic",
               called |-> "basic_agent", handed |-> message]

\* `except Exception as e: return f"Error in {mode} mode: {str(e)}"`
process_message_except(mode, exc) ==
    [caught |-> TRUE, value |-> "Error in " \o mode \o " mode: " \o exc]

\* The lines one interactive session reads.
MaxTurns == 2

\* UnifiedGitHubAgent(): _initialize_agents sets the agents.
InitializeAgents ==
    /\ chat.pc = "new"
    /\ \E imported \in BOOLEAN,
          constructed \in [{"advanced", "streaming", "meta"} -> BOOLEAN] :
         chat' = [chat EXCEPT !.pc = "ready",
                              !.agents = initialize_agents(imported, constructed)]
    /\ UNCHANGED <<env, httpLib, api, agent, pc, cur, sent, result, prev, remote,
                   runs, metrics, callers, setup>>

\* main with a message on the command line (or the default message of a
\* GitHub Actions run): the message and --mode go to process_message; with
\* no message outside GitHub Actions the interactive loop starts.
MainArguments ==
    /\ chat.pc = "ready"
    /\ \E message \in {Unset, "hello", "Show live progress"},
          mode \in {"auto", "basic", "advanced", "streaming", "meta-tooling"},
          is_github_actions \in BOOLEAN :
         chat' = IF message # Unset \/ is_github_actions
                 THEN [chat EXCEPT
                         !.pc = "process", !.source = "arguments", !.mode = mode,
                         !.message = IF message # Unset THEN message
                                     ELSE "Perform comprehensive autonomous repository management"]
                 ELSE [chat EXCEPT !.pc = "prompt", !.source = "interactive"]
    /\ UNCHANGED <<env, httpLib, api, agent, pc, cur, sent, result, prev, remote,
                   runs, metrics, callers, setup>>

\* One pass of the interactive loop up to the call of process_message:
\* 'exit' and 'quit' leave, a blank line is skipped, any other line is
\* parsed.
ReadLine ==
    /\ chat.pc = "prompt"
    /\ chat.turns < MaxTurns
    /\ \E q \in Lines :
         chat' = IF Lower(JoinColon(q)) \in {"exit", "quit"}
                 THEN [chat EXCEPT !.pc = "over", !.line = q, !.turns = @ + 1]
                 ELSE IF Strip(JoinColon(q)) = ""
                 THEN [chat EXCEPT !.line = q, !.turns = @ + 1]
                 ELSE [chat EXCEPT !.pc = "process", !.line = q, !.turns = @ + 1,
                                   !.mode = parse_line(q).mode,
                                   !.message = parse_line(q).q]
    /\ UNCHANGED <<env, httpLib, api, agent, pc, cur, sent, result, prev, remote,
                   runs, metrics, callers, setup>>

\* process_message(message, mode): the agent of the branch taken returns or
\* raises; an agent that is None raises when it is called; the except clause
\* turns what is raised into a returned string.
ProcessMessage ==
    /\ chat.pc = "process"
    /\ \E p \in {process_message(chat.message, chat.mode, chat.agents)},
          agent_raises \in BOOLEAN :
         LET absent == /\ p.called # "basic_agent"
                       /\ ~chat.agents[IF p.called = "meta_agent" THEN "meta"
                                       ELSE "streaming"]
             threw == agent_raises \/ absent
             handler == process_message_except(p.resolved,
                                               IF absent THEN "AttributeError"
                                               ELSE "RuntimeError")
         IN chat' = [chat EXCEPT
                       !.pc = IF chat.source = "interactive" THEN "prompt" ELSE "over",
                       !.processed = TRUE,
                       !.resolved = p.resolved,
                       !.path = p.path,
                       !.called = IF absent THEN <<>> ELSE <<p.called>>,
                       !.handed = p.handed,
                       !.threw = threw,
                       !.raised = threw /\ ~handler.caught,
                       !.result = IF ~threw THEN "reply of " \o p.called
                                  ELSE IF handler.caught THEN handler.value
                                  ELSE ""]
    /\ UNCHANGED <<env, httpLib, api, agent, pc, cur, sent, result, prev, remote,
                   runs, metrics, callers, setup>>

InitMain ==
    /\ env = [GITHUB_TOKEN |-> "tok", GITHUB_REPOSITORY |-> "o/r"]
    /\ httpLib = TRUE
    /\ api = GitHubAPI_new
    /\ agent = UnifiedGitHubAgent_new
    /\ pc = "Idle"
    /\ cur = NoCall
    /\ sent = <<>>
    /\ result = NoResult
    /\ prev = NoPrev
    /\ remote = NoRemote
    /\ runs = 0
    /\ metrics = NoMetrics
    /\ callers = [t \in Callers |-> IdleCaller]
    /\ setup = NoSetup
    /\ chat = [pc |-> "new", source |-> "", turns |-> 0,
               agents |-> initialize_agents(FALSE, [a \in {"advanced", "streaming",
                                                          "meta"} |-> FALSE]),
               line |-> <<>>, mode |-> "", message |-> "", processed |-> FALSE,
               resolved |-> "", path |-> "", called |-> <<>>, handed |-> "",
               threw |-> FALSE, raised |-> FALSE, result |-> ""]

NextMain ==
    \/ InitializeAgents
    \/ MainArguments
    \/ ReadLine
    \/ ProcessMessage

SpecMain == InitMain /\ [][NextMain]_vars

(***************************************************************************)
(* agent.py: single calls of the tools (SpecTools).                        *)
(***************************************************************************)

\* dict.get(key, default)
Get(d, key, default) == IF key \in DOMAIN d THEN d[key] ELSE default

\* len() of a decoded JSON value: the keys of an object, the items of a list.
JLen(value) ==
    IF value.kind = "dict" THEN Cardinality(DOMAIN value.val)
    ELSE Len(value.val.items)

\* The recommendation that takes the first threshold the score reaches,
\* tested from the lowest.
mode_recommendation_lowest_first(complexity_score) ==
    IF complexity_score >= 1 THEN "STREAMING MODE"
    ELSE IF complexity_score >= 2 THEN "ADVANCED MODE"
    ELSE IF complexity_score >= 3 THEN "META-TOOLING MODE"
    ELSE "BASIC MODE"

\* `if complexity_score >= 3: ... elif >= 2: ... elif >= 1: ... else: ...`
mode_recommendation(complexity_score) ==
    IF complexity_score >= 3 THEN "META-TOOLING MODE"
    ELSE IF complexity_score >= 2 THEN "ADVANCED MODE"
    ELSE IF complexity_score >= 1 THEN "STREAMING MODE"
    ELSE "BASIC MODE"

\* The score analyze_repository_complexity adds up from the repository
\* object and the answer to the languages request.
complexity_score(repo_info, languages) ==
    (IF Get(repo_info, "size", 0) > 10000 THEN 2 ELSE 0)
      + (IF Get(repo_info, "open_issues_count", 0) > 10 THEN 1 ELSE 0)
      + (IF (languages.kind # "dict" \/ ~Has(languages, "error"))
              /\ JLen(languages) > 3
         THEN 1 ELSE 0)

\* analyze_repository_complexity()
analyze_repository_complexity(s) ==
    UNION {IF Has(s1.reply, "error")
           THEN {[s1 EXCEPT !.text = "Could not analyze repository complexity"]}
           ELSE {[s2 EXCEPT
                    !.text = "REPOSITORY COMPLEXITY ANALYSIS",
                    !.report =
                        [some |-> TRUE,
                         score |-> complexity_score(s1.reply.val, s2.reply),
                         out_of |-> 4,
                         mode |-> mode_recommendation(
                                      complexity_score(s1.reply.val, s2.reply))]]
                    : s2 \in github_api_in(s1, github_api(RepoEndpoint("/languages"),
                                                          "GET", PyNone))}
              : s1 \in github_api_in(s, github_api(RepoEndpoint(""), "GET", PyNone))}

\* The repository objects and the language answers GitHub gives.
RepoInfos ==
    {[size |-> sz, open_issues_count |-> n] : sz \in {10000, 10001},
                                              n \in {10, 11}}
        \cup {[name |-> "r"]}

LanguageAnswers ==
    {JObject([l \in ls |-> 100])
        : ls \in {{}, {"Python", "Shell", "HTML"}, {"Python", "Shell", "HTML", "C"}}}
        \cup {JList(<<[name |-> "Python"], [name |-> "Shell"], [name |-> "HTML"],
                      [name |-> "C"]>>)}

\* The issues analyze_and_act_on_issue is called with.
IssueInputs ==
    {[issue_number |-> 1, title |-> tb[1], body |-> tb[2], labels |-> <<>>]
        : tb \in {<<"Fix Bug", "">>, <<"Add dark mode", "Fix Bug">>,
                  <<"Add dark mode", "">>, <<SecurityTitle, "">>,
                  <<"CVE in parser", "">>, <<"CVE in parser", "Slow startup">>,
                  <<"Slow startup", "">>, <<"Slow startup", "README typo">>,
                  <<"README typo", "">>, <<"Question", "">>,
                  <<"Question", "CVE in parser">>}}
        \cup {[issue_number |-> 7, title |-> "Question", body |-> "",
               labels |-> <<>>]}

\* The outcome of one call of a tool.
Called(tool, s) ==
    /\ remote' = s.remote
    /\ sent' = s.sent
    /\ result' = [kind |-> "text", tool |-> tool, text |-> s.text, args |-> s.args,
                  failed |-> s.failed, report |-> s.report, reply |-> s.reply]
    /\ runs' = runs + 1
    /\ UNCHANGED <<env, httpLib, api, agent, pc, cur, prev, metrics, callers, chat,
                   setup>>

CallAnalyzeRepositoryComplexity ==
    /\ runs < MaxRuns
    /\ \E s \in analyze_repository_complexity(Session(MaxFailures)) :
         Called("analyze_repository_complexity", s)

CallAnalyzeAndActOnIssue ==
    /\ runs < MaxRuns
    /\ \E a \in IssueInputs :
         \E s0 \in {[Session(MaxFailures) EXCEPT !.args = a]} :
           \E s \in analyze_and_act_on_issue(s0, a.issue_number, a.title, a.body,
                                              a.labels) :
             Called("analyze_and_act_on_issue", s)

CallCreateImprovementPr ==
    /\ runs < MaxRuns
    /\ \E a \in PRInputs :
         \E s0 \in {[Session(MaxFailures) EXCEPT !.args = a]} :
           \E s \in create_improvement_pr(s0, a.title, a.description, a.branch_name,
                                           a.file_changes) :
             Called("create_improvement_pr", s)

InitTools ==
    /\ env \in [GITHUB_TOKEN : TokenValues, GITHUB_REPOSITORY : {Unset, "o/r"}]
    /\ httpLib = TRUE
    /\ api = GitHubAPI_new
    /\ agent = UnifiedGitHubAgent_new
    /\ pc = "Idle"
    /\ cur = NoCall
    /\ sent = <<>>
    /\ result = NoResult
    /\ prev = NoPrev
    /\ remote \in [files : {FilesClean}, issues : {<<UserIssue>>}, info : RepoInfos,
                   languages : LanguageAnswers]
    /\ runs = 0
    /\ metrics = NoMetrics
    /\ callers = [t \in Callers |-> IdleCaller]
    /\ chat = NoChat
    /\ setup = NoSetup

NextTools ==
    \/ CallAnalyzeRepositoryComplexity
    \/ CallAnalyzeAndActOnIssue
    \/ CallCreateImprovementPr

SpecTools == InitTools /\ [][NextTools]_vars

(***************************************************************************)
(* Properties of single invocations (Spec).                                *)
(***************************************************************************)

\* C1: no HTTP request is issued, by make_request or by the github_api tool,
\* unless the environment supplied both a non-empty token and a repository
\* identifier; when either is absent zero HTTP calls are made.
C1_NoRequestWithoutCredentials ==
    sent # <<>> =>
        TruthyStr(env.GITHUB_TOKEN) /\ TruthyStr(env.GITHUB_REPOSITORY)

\* C2: make_request never lets an exception escape: whatever the method, the
\* data and the network's outcome it returns a value (None, the decoded body
\* or the success stub), and an unsupported method returns the failure value
\* with zero HTTP calls.
C2_MakeRequestNeverRaises ==
    cur.via = "make_request" =>
        /\ pc # "Raised"
        /\ pc = "Returned" => result.kind \in {"None", "dict", "list"}
        /\ (pc = "Returned" /\ Upper(cur.method) \notin SupportedMethods)
               => (result = RNone /\ sent = <<>>)
        /\ (pc = "Returned" /\ cur.outcome.type \in {"ConnectionError", "silent"})
               => result = RNone

\* An unsupported method has gone through make_request and came back as None.
C2_Witness ==
    /\ pc = "Returned"
    /\ cur.via = "make_request"
    /\ cur.local = "unsupported method"
    /\ Upper(cur.method) = "HEAD"
    /\ result = RNone
    /\ sent = <<>>

\* C3: a comment request whose body is the empty string is rejected locally:
\* it returns a failure and issues zero HTTP calls.
C3_EmptyCommentRejectedLocally ==
    (cur.op = "create_comment" /\ cur.body = "") =>
        /\ sent = <<>>
        /\ pc = "Returned" => result = RNone

\* C4 as stated: whether a request of make_request carries a JSON body is
\* determined by its HTTP method alone: POST, PUT and PATCH carry one, GET
\* and DELETE none.
C4_BodyDeterminedByMethod ==
    \A i \in DOMAIN sent :
        sent[i].via = "requests" =>
            (sent[i].hasJson <=> sent[i].verb \in BodyMethods)

\* C4, amended: a request of make_request carries a JSON body exactly when its
\* method is POST, PUT or PATCH and the data argument is a non-empty dict, and
\* the body is then that dict; so no GET or DELETE carries one whatever the
\* data, and the PATCH of update_issue with no field supplied carries none.
C4_BodyIffMethodAndData ==
    (pc \in {"Sent", "Returned"} /\ cur.via = "make_request") =>
        \A i \in DOMAIN sent :
            /\ sent[i].verb = Upper(cur.method)
            /\ sent[i].hasJson <=>
                  (Upper(cur.method) \in BodyMethods
                     /\ cur.data.some /\ DOMAIN cur.data.val # {})
            /\ sent[i].hasJson => sent[i].json = cur.data.val
            /\ sent[i].verb \in {"GET", "DELETE"} => ~sent[i].hasJson
            /\ (cur.op = "update_issue" /\ DOMAIN cur.data.val = {})
                  => ~sent[i].hasJson

\* update_issue with no field supplied has sent its PATCH, without a body.
C4_Witness ==
    /\ pc = "Sent"
    /\ cur.op = "update_issue"
    /\ DOMAIN cur.data.val = {}
    /\ Len(sent) = 1
    /\ sent[1].verb = "PATCH"
    /\ ~sent[1].hasJson

\* C5: make_request returns a success payload for every 2xx response and a
\* failure for every non-2xx response or transport failure.
C5_SuccessIffTwoHundreds ==
    (pc = "Returned" /\ cur.via = "make_request" /\ cur.outcome.type # "none") =>
        (result # RNone <=>
            (cur.outcome.type = "response"
                /\ cur.outcome.status >= 200 /\ cur.outcome.status <= 299))

\* C6: one invocation of make_request or github_api issues at most one HTTP
\* call and moves only forward, Built -> Sent -> returned (succeeded or
\* failed): a request that was sent is never built or sent again.
C6_Steps ==
    /\ pc = "Idle" => pc' \in {"Built", "Returned"} /\ sent' = <<>>
    /\ pc = "Built" => pc' \in {"Sent", "Returned"} /\ Len(sent') <= 1
    /\ pc = "Sent" => pc' \in {"Returned", "Hung"} /\ sent' = sent
    /\ pc = "Returned" => pc' = "Idle"
    /\ pc = "Hung" => pc' = "Hung"

C6_OneCallNoRetry ==
    /\ [](Len(sent) <= 1 /\ (pc = "Sent" => Len(sent) = 1))
    /\ [][C6_Steps]_vars

\* A request was sent once and its invocation has returned a failure.
C6_Witness ==
    /\ pc = "Returned"
    /\ Len(sent) = 1
    /\ cur.outcome.type = "response"
    /\ cur.outcome.status = 404
    /\ result = RNone

\* How an invocation failed: the local reason, or the network's outcome.
FailureReason(c) == <<c.local, c.outcome.type, c.outcome.status>>

\* C7: the failure result of make_request carries the status (or a transport
\* sentinel): two requests that fail for different reasons never produce
\* identical results.
C7_FailuresDistinguishable ==
    (/\ pc = "Returned" /\ prev.valid
     /\ cur.via = "make_request" /\ prev.via = "make_request"
     /\ result = RNone /\ prev.result = RNone
     /\ FailureReason(cur) # FailureReason(prev))
        => result # prev.result

\* C8: every HTTP call of make_request and of the github_api tool is sent with
\* a bounded client-side timeout, and no call hangs its caller.
C8_EveryCallHasTimeout ==
    /\ \A i \in DOMAIN sent : sent[i].hasTimeout
    /\ pc # "Hung"

C14_HeadersOnEveryRequest ==
    \A i \in DOMAIN sent :
        sent[i].via = "requests" =>
            /\ "Authorization" \in DOMAIN sent[i].headers
            /\ sent[i].headers.Authorization = "Bearer " \o env.GITHUB_TOKEN
            /\ TruthyStr(env.GITHUB_TOKEN)
            /\ "Accept" \in DOMAIN sent[i].headers
            /\ sent[i].headers.Accept = "application/vnd.github.v3+json"
            /\ sent[i].hasJson =>
                  /\ "ContentType" \in DOMAIN sent[i].headers
                  /\ sent[i].headers.ContentType = "application/json"

\* A request with a body has been sent by make_request.
C14_Witness ==
    /\ pc = "Sent"
    /\ cur.via = "make_request"
    /\ Len(sent) = 1
    /\ sent[1].hasJson
    /\ sent[1].headers.Authorization = "Bearer tok"

\* C15: once a GitHubAPI is constructed its repo, headers and base_url never
\* change, whatever operation runs and however it ends, and every request of
\* the instance is built from them.
C15_Frame ==
    /\ api' = api
    /\ \A i \in DOMAIN sent' :
          sent'[i].via = "requests" =>
              /\ sent'[i].headers = api.headers
              /\ sent'[i].url = api.base_url \o "/" \o EndpointStr(Lstrip(cur'.endpoint))

C15_CredentialsImmutable == [][C15_Frame]_vars

\* A second operation of the instance has failed after a first one ended.
C15_Witness ==
    /\ pc = "Returned"
    /\ cur.via = "make_request"
    /\ prev.valid
    /\ prev.via = "make_request"
    /\ result = RNone
    /\ Len(sent) = 1
    /\ api.state = "ready"

\* C18: a 403 carrying a rate-limit-reset header is told apart from a 403
\* without it: make_request returns for it a result that names the reset time
\* and differs from the result for the plain 403.
C18_RateLimitClassified ==
    /\ (pc = "Returned" /\ cur.via = "make_request"
          /\ cur.outcome.type = "response" /\ cur.outcome.status = 403
          /\ cur.outcome.reset # 0)
          => Has(result, "resetAt")
    /\ (pc = "Returned" /\ prev.valid
          /\ cur.via = "make_request" /\ prev.via = "make_request"
          /\ cur.outcome.type = "response" /\ prev.outcome.type = "response"
          /\ cur.outcome.status = 403 /\ prev.outcome.status = 403
          /\ cur.outcome.reset # prev.outcome.reset)
          => result # prev.result

(***************************************************************************)
(* Properties of the tool runs (SpecRuns).                                 *)
(***************************************************************************)

\* A create-issue POST: a POST to the issues endpoint of the repository.
IsCreateIssue(req) ==
    /\ Upper(req.verb) = "POST"
    /\ req.url = "https://api.github.com/repos/" \o agent.repo \o "/issues"
    /\ req.hasJson

\* C9: an improvement issue is not created when an equivalent issue (the
\* same title) is already open: a run of proactive_repository_analysis or
\* detect_performance_issues sends no create-issue POST for a title that an
\* open issue of the repository carries.
C9_NoDuplicateCreate ==
    [][runs' # runs =>
          \A i \in DOMAIN sent' :
              IsCreateIssue(sent'[i]) =>
                  ~\E k \in DOMAIN remote.issues :
                       remote.issues[k].title = sent'[i].json.title]_vars

\* C10: over any number of runs of analyze_existing_issues and
\* analyze_pull_requests, each open issue or pull request receives the
\* agent's comment at most once.
C10_CommentedAtMostOnce ==
    \A k \in DOMAIN remote.issues : remote.issues[k].comments <= 1

\* A listing GET: the open issues, or the open pull requests, of the repository.
IsListingGet(req, which) ==
    /\ Upper(req.verb) = "GET"
    /\ req.url = ApiBase \o "/" \o which \o "?state=open"

\* Every open item GitHub holds for a listing, over all its pages.
AllOpen(which) ==
    IF which = "issues" THEN ListIssues(remote.issues) ELSE ListPulls(remote.issues)

ListingOf(tool) ==
    IF tool \in {"analyze_existing_issues", "get_issues"} THEN "issues" ELSE "pulls"

\* C11: a listing of the open issues or pull requests follows the pages until
\* they are exhausted: it yields every open item, in page order, with one
\* HTTP call per page.
C11_ListingFollowsPagination ==
    (/\ result.kind = "text"
     /\ result.tool \in {"analyze_existing_issues", "analyze_pull_requests",
                         "get_issues", "get_pull_requests"}
     /\ result.listed[ListingOf(result.tool)].some) =>
        /\ result.listed[ListingOf(result.tool)].items = AllOpen(ListingOf(result.tool))
        /\ Cardinality({i \in DOMAIN sent : IsListingGet(sent[i], ListingOf(result.tool))})
              = Pages(Len(AllOpen(ListingOf(result.tool))))

\* The comment attempts for item n among the requests of a run.
CommentUrl(n) ==
    "https://api.github.com/repos/" \o agent.repo \o "/issues/" \o ToString(n)
        \o "/comments"

Attempts(n) ==
    {i \in DOMAIN sent : Upper(sent[i].verb) = "POST" /\ sent[i].url = CommentUrl(n)}

\* An item whose number, title and body can be read.
Readable(item) == {"number", "title", "body"} \subseteq DOMAIN item

\* C13: one failed action never aborts a batch: whatever happens to one listed
\* item (its comment call fails, or reading it raises), every other listed
\* issue that is not a pull request, and every other listed pull request,
\* still gets its comment attempt.
C13_FailureDoesNotAbortBatch ==
    /\ (/\ result.kind = "text"
        /\ result.tool = "analyze_existing_issues"
        /\ result.listed.issues.some) =>
           \A j \in DOMAIN result.listed.issues.items :
               (/\ Readable(result.listed.issues.items[j])
                /\ "pull_request" \notin DOMAIN result.listed.issues.items[j])
                   => Attempts(result.listed.issues.items[j].number) # {}
    /\ (/\ result.kind = "text"
        /\ result.tool = "analyze_pull_requests"
        /\ result.listed.pulls.some) =>
           \A j \in DOMAIN result.listed.pulls.items :
               Readable(result.listed.pulls.items[j])
                   => Attempts(result.listed.pulls.items[j].number) # {}

\* A create-pull-request call: a POST to the pulls endpoint.
IsCreatePull(req) ==
    /\ Upper(req.verb) = "POST"
    /\ req.url = "https://api.github.com/repos/" \o agent.repo \o "/pulls"

\* C17: the body of every create-pull-request call of create_improvement_pr
\* has exactly the keys title, body, head and base, holding the title, the
\* description, the branch name and "main", whatever the arguments.
C17_PullBodyFourKeys ==
    (result.kind = "text" /\ result.tool = "create_improvement_pr") =>
        \A i \in DOMAIN sent :
            IsCreatePull(sent[i]) =>
                /\ sent[i].hasJson
                /\ DOMAIN sent[i].json = {"title", "body", "head", "base"}
                /\ sent[i].json.title = result.args.title
                /\ sent[i].json.body = result.args.description
                /\ sent[i].json.head = result.args.branch_name
                /\ sent[i].json.base = "main"

\* create_improvement_pr with an empty title and one file has created its
\* pull request.
C17_Witness ==
    /\ result.kind = "text"
    /\ result.tool = "create_improvement_pr"
    /\ result.args.title = ""
    /\ result.args.file_changes # <<>>
    /\ Has(result.reply, "number")
    /\ \E i \in DOMAIN sent : IsCreatePull(sent[i])

\* The step of comprehensive_repository_action a request belongs to, for the
\* requests that tell (0: a comment, which steps 1 and 2 both send).
StepOf(req) ==
    IF IsListingGet(req, "issues") THEN 1
    ELSE IF IsListingGet(req, "pulls") THEN 2
    ELSE IF IsCreateIssue(req) /\ req.json.title = OptimizeTitle THEN 3
    ELSE IF IsCreateIssue(req) THEN 4
    ELSE 0

Creates(title) ==
    Cardinality({i \in DOMAIN sent : IsCreateIssue(sent[i]) /\ sent[i].json.title = title})

Expected(found) == IF found # <<>> /\ TruthyStr(agent.token) THEN 1 ELSE 0

\* C19: comprehensive_repository_action runs analyze_existing_issues,
\* analyze_pull_requests, detect_performance_issues and
\* proactive_repository_analysis once each, in that order, whatever an earlier
\* step met (no token, a failed fetch, a failed create), and its summary lists
\* the four results in that order.
C19_FourStepsInOrder ==
    (result.kind = "text" /\ result.tool = "comprehensive_repository_action") =>
        /\ Len(result.all_actions) = 4
        /\ result.all_actions[1].label = "Issue Analysis"
        /\ result.all_actions[2].label = "PR Analysis"
        /\ result.all_actions[3].label = "Performance Analysis"
        /\ result.all_actions[4].label = "Proactive Analysis"
        /\ \A k \in 1..4 : result.all_actions[k].text # ""
        /\ \A i, j \in DOMAIN sent :
              (i < j /\ StepOf(sent[i]) # 0 /\ StepOf(sent[j]) # 0)
                  => StepOf(sent[i]) <= StepOf(sent[j])
        /\ TruthyStr(agent.token) =>
              /\ Cardinality({i \in DOMAIN sent :
                    Upper(sent[i].verb) = "GET"
                      /\ sent[i].url = "https://api.github.com/repos/" \o agent.repo
                                           \o "/issues?state=open"}) = 1
              /\ Cardinality({i \in DOMAIN sent :
                    Upper(sent[i].verb) = "GET"
                      /\ sent[i].url = "https://api.github.com/repos/" \o agent.repo
                                           \o "/pulls?state=open"}) = 1
        /\ Creates(OptimizeTitle) = Expected(performance_issues)
        /\ Creates(SecurityTitle) = Expected(security_issues)
        /\ Creates(QualityTitle) = Expected(quality_issues)
        /\ Creates(DocumentationTitle) = Expected(doc_issues)
        /\ Creates(PerformanceTitle) = Expected(perf_issues)
        /\ Creates(CicdTitle) = Expected(cicd_issues)

\* The fetch of the first step failed and the three later steps ran all the
\* same.
C19_Witness ==
    /\ result.kind = "text"
    /\ result.tool = "comprehensive_repository_action"
    /\ result.all_actions[1].text = "Could not fetch issues"
    /\ result.all_actions[2].text = "PULL REQUEST ANALYSIS COMPLETED"
    /\ Creates(OptimizeTitle) = 1
    /\ Creates(SecurityTitle) = 1

\* The comment attempts for item n in the analyze_existing_issues step (before
\* the pull-request listing) and in the analyze_pull_requests step (after it).
PullsGet == CHOOSE i \in DOMAIN sent : IsListingGet(sent[i], "pulls")

IssueStepAttempts(n) == {i \in Attempts(n) : i < PullsGet}

PullStepAttempts(n) == {i \in Attempts(n) : i > PullsGet}

\* Every item before and at position j of a listing can be read.
ReadableUpTo(items, j) == \A k \in 1..j : Readable(items[k])

C16_NoLostUpdate ==
    (/\ \A t \in Callers : callers[t].pc = "idle"
     /\ \E t \in Callers : callers[t].calls > 0) =>
        /\ metrics.current # 0
        /\ metrics.objects[metrics.current].total_calls
              = callers[1].calls + callers[2].calls
        /\ metrics.objects[metrics.current].successful_calls
              = callers[1].successes + callers[2].successes

(***************************************************************************)
(* Properties of setup.py main (SpecSetup).                                *)
(***************************************************************************)

\* C23: with python, git and pip available (and the network reachable) but
\* no git repository in the working directory, setup main does not end
\* before it has asked 'Continue anyway?', and it goes on to the
\* installation when the answer is 'y'.
C23_AsksBeforeExit ==
    (/\ setup.pc = "over"
     /\ ~setup.args.check
     /\ setup.machine.python /\ setup.machine.git /\ setup.machine.pip
     /\ setup.machine.internet
     /\ ~setup.machine.git_repo) =>
        /\ Len(setup.asked) > 0
        /\ setup.asked[1] = "Continue anyway?"

\* C24: a full setup run (no option given) with every prerequisite met, in
\* a directory without .gitignore and without .env.template, goes through
\* directories, agent files, workflow, .gitignore and .env.template in that
\* order, reaches print_next_steps and never ends with status 1.
C24_FullSetupCompletes ==
    (/\ setup.pc = "over"
     /\ setup.args = [check |-> FALSE, quick |-> FALSE, update |-> FALSE,
                      interactive |-> FALSE]
     /\ failed_prereqs(check_prerequisites(setup.machine)) = {}
     /\ ".gitignore" \notin setup.start
     /\ ".env.template" \notin setup.start) =>
        /\ setup.status = "returned"
        /\ SubSeq(setup.done, 1, 5)
              = <<"directories", "agent files", "workflow", ".gitignore",
                  ".env.template">>
        /\ setup.done[Len(setup.done)] = "print_next_steps"

(***************************************************************************)
(* Properties of agent.py main and process_message (SpecMain).             *)
(***************************************************************************)

\* The modes main advertises at the prompt.
AdvertisedModes == {"basic", "advanced", "streaming", "meta-tooling", "auto"}

\* C21: process_message hands each message to exactly one agent and never
\* raises. The streaming, meta-tooling or advanced path is taken only when
\* the resolved mode names it and that mode's agent was initialised; in
\* every other case (basic, an unknown mode string, the named agent not
\* available) the basic agent gets the message; an exception of the agent
\* comes back as an 'Error in <mode> mode' string.
C21_OneAgentNeverRaises ==
    (chat.pc \in {"prompt", "over"} /\ chat.processed) =>
        /\ ~chat.raised
        /\ Len(chat.called) = 1
        /\ chat.mode # "auto" => chat.resolved = chat.mode
        /\ chat.path = "streaming" <=>
              (chat.resolved = "streaming" /\ chat.agents["streaming"])
        /\ chat.path = "meta-tooling" <=>
              (chat.resolved = "meta-tooling" /\ chat.agents["meta"])
        /\ chat.path = "advanced" <=>
              (chat.resolved = "advanced" /\ chat.agents["advanced"])
        /\ chat.path \in {"streaming", "meta-tooling", "advanced", "basic"}
        /\ chat.called[1] = (CASE chat.path = "streaming" -> "streaming_agent"
                               [] chat.path = "meta-tooling" -> "meta_agent"
                               [] OTHER -> "basic_agent")
        /\ chat.path = "basic" => chat.handed = chat.message
        /\ chat.threw =>
              chat.result \in {"Error in " \o chat.resolved \o " mode: " \o e
                                 : e \in {"RuntimeError", "AttributeError"}}

\* C21 happens: a message asked to stream while the streaming agent was not
\* initialised went to the basic agent, whose exception came back as text.
C21_Witness ==
    /\ chat.pc = "over"
    /\ chat.processed
    /\ chat.mode = "streaming"
    /\ ~chat.agents["streaming"]
    /\ chat.called = <<"basic_agent">>
    /\ chat.threw
    /\ chat.result = "Error in streaming mode: RuntimeError"

\* C25: in the interactive loop a line that starts with 'mode:' is passed
\* to process_message with one of the advertised modes, and every other
\* non-empty line with mode auto.
C25_InteractiveModeAdvertised ==
    (chat.pc = "process" /\ chat.source = "interactive") =>
        IF Len(chat.line) >= 2 /\ chat.line[1] = "mode"
        THEN chat.mode \in AdvertisedModes
        ELSE chat.mode = "auto"

(***************************************************************************)
(* Properties of single tool calls (SpecTools).                            *)
(***************************************************************************)

\* C22: the complexity score analyze_repository_complexity reports lies in
\* 0..4 (it is shown as score/4) and fixes the recommended mode:
\* META-TOOLING for 3 and more, ADVANCED for 2, STREAMING for 1, BASIC for
\* 0, whatever the repository size, the open-issue count and the answer to
\* the languages request (an error and a non-dict answer included). The
\* report is given whenever the repository request itself gave no error.
C22_ScoreInRangeFixesMode ==
    (runs > 0 /\ result.tool = "analyze_repository_complexity") =>
        IF result.text = "Could not analyze repository complexity"
        THEN ~result.report.some /\ Len(sent) <= 1 /\ Has(result.reply, "error")
        ELSE /\ result.report.some
             /\ result.report.score \in 0..result.report.out_of
             /\ result.report.out_of = 4
             /\ result.report.mode =
                   (CASE result.report.score >= 3 -> "META-TOOLING MODE"
                      [] result.report.score = 2 -> "ADVANCED MODE"
                      [] result.report.score = 1 -> "STREAMING MODE"
                      [] result.report.score = 0 -> "BASIC MODE")

\* C22 happens: a large repository with many open issues whose languages
\* request failed is reported with score 3 and the meta-tooling mode.
C22_Witness ==
    /\ runs > 0
    /\ result.tool = "analyze_repository_complexity"
    /\ remote.info = [size |-> 10001, open_issues_count |-> 11]
    /\ Has(result.reply, "error")
    /\ result.report.some
    /\ result.report.score = 3
    /\ result.report.mode = "META-TOOLING MODE"

\* The type the fixed order gives an issue: the first of bug, enhancement,
\* security, performance, documentation whose keywords title or body hold.
FirstMatch(title, body) ==
    LET order == <<[type |-> "bug",
                    keywords |-> {"bug", "error", "fail", "broken", "crash"}],
                   [type |-> "enhancement",
                    keywords |-> {"feature", "enhancement", "improve", "add"}],
                   [type |-> "security",
                    keywords |-> {"security", "vulnerability", "cve"}],
                   [type |-> "performance",
                    keywords |-> {"performance", "slow", "optimize", "speed"}],
                   [type |-> "documentation",
                    keywords |-> {"doc", "documentation", "readme"}]>>
        matches == {i \in DOMAIN order :
                       order[i].keywords \cap (Words(title) \cup Words(body)) # {}}
    IN IF matches = {} THEN "general"
       ELSE order[CHOOSE i \in matches : \A j \in matches : i <= j].type

\* The issue type and the priority that the text of a call's result and the
\* comment it posted name agree with the claim's rule.
TypeAndPriority ==
    LET a == result.args
        type == FirstMatch(a.title, a.body)
        priority == CASE type \in {"security", "bug"} -> "High"
                      [] type = "performance" -> "Medium"
                      [] OTHER -> "Normal"
    IN /\ result.text \in {"Analyzed and commented on " \o type \o " issue",
                           "Analyzed " \o type \o " issue but failed to comment"}
       /\ \A i \in DOMAIN sent :
            sent[i].json.body = "AI Agent Analysis. Issue Type: " \o type
                                    \o ". Estimated Priority: " \o priority

\* The comment POSTs of the call for its issue number.
CommentPosts ==
    {i \in DOMAIN sent :
        /\ Upper(sent[i].verb) = "POST"
        /\ sent[i].hasJson
        /\ sent[i].url = "https://api.github.com/repos/" \o agent.repo \o "/issues/"
                            \o ToString(result.args.issue_number) \o "/comments"}

\* C26: analyze_and_act_on_issue gives every issue exactly one type, the
\* first match in the order bug, enhancement, security, performance,
\* documentation, else general, over title and body without regard to case;
\* the posted priority is High exactly for security and bug, Medium exactly
\* for performance, Normal otherwise; and each call makes exactly one
\* comment POST for the given issue number.
C26_OneTypeOnePost ==
    (runs > 0 /\ result.tool = "analyze_and_act_on_issue") =>
        /\ TypeAndPriority
        /\ Len(sent) = 1
        /\ CommentPosts = {1}

\* C26 as amended: type and priority as above; the call makes exactly one
\* comment POST for the given issue number when a token is configured, and
\* no request at all when none is.
C26_OneTypeAtMostOnePost ==
    (runs > 0 /\ result.tool = "analyze_and_act_on_issue") =>
        /\ TypeAndPriority
        /\ IF TruthyStr(agent.token)
           THEN Len(sent) = 1 /\ CommentPosts = {1}
           ELSE sent = <<>> /\ result.text = "Analyzed " \o FirstMatch(result.args.title,
                                                                      result.args.body)
                                                 \o " issue but failed to comment"

\* C26 happens: an issue whose body names a CVE but whose title holds no
\* keyword is typed security and commented with priority High.
C26_Witness ==
    /\ runs > 0
    /\ result.tool = "analyze_and_act_on_issue"
    /\ result.args.title = "Question"
    /\ result.args.body = "CVE in parser"
    /\ result.text = "Analyzed and commented on security issue"
    /\ Len(sent) = 1
    /\ sent[1].json.body
          = "AI Agent Analysis. Issue Type: security. Estimated Priority: High"
    /\ remote.issues[1].comments = 1

\* C27: create_improvement_pr issues its requests in the order main ref,
\* branch, files, pull request, and sends no file PUT and no pull-request
\* POST after the main-ref fetch or the branch creation failed.
C27_NothingAfterFailedStep ==
    (runs > 0 /\ result.tool = "create_improvement_pr") =>
        \A i \in result.failed :
            (\/ sent[i].url = "https://api.github.com/repos/" \o agent.repo
                                  \o "/git/ref/heads/main"
             \/ sent[i].url = "https://api.github.com/repos/" \o agent.repo
                                  \o "/git/refs") =>
                \A j \in DOMAIN sent : j <= i

====
